---- MODULE Spec2Model ----
(***************************************************************************)
(* A model of the per-frame simulation core of the game: player bullets,   *)
(* the aura weapon, skill projectiles and the player's invincibility       *)
(* window.                                                                 *)
(*                                                                         *)
(* Units.  Time is counted in steps of 50 ms (20 steps = 1.0 s), lengths   *)
(* in half world units on the x axis (the aim axis; y = 0 for every        *)
(* entity), so that a speed of v units per second is v / 10 per step and   *)
(* a radius of size / 2 world units is `size` half units.                  *)
(* Emitted sounds and damage texts are presentation and are not modelled.  *)
(*                                                                         *)
(* Scheduling.  A frame runs every system of the Update schedule once.     *)
(* Systems of one `.chain()` run in chain order; systems of different      *)
(* chains run in any order.  Commands (spawn, despawn) are deferred: they  *)
(* are queued in `cmds` and applied at a sync point (ApplyDeferred), which *)
(* the scheduler places after every chained system that has a Commands     *)
(* parameter, and at the end of the schedule.  GlobalTransform (`gpos`) is *)
(* recomputed from Transform (`pos`) in PostUpdate, i.e. at the end of     *)
(* the frame; a freshly spawned entity has the identity GlobalTransform.   *)
(***************************************************************************)
EXTENDS Integers, Sequences, FiniteSets, TLC

(* ------------------------------ bounds --------------------------------- *)
NumEnemies == 2
MaxBullets == 2
MaxPierce == 1
MaxAdditional == 1
MaxDelta == 2
MaxEnemyProjectiles == 1
NumHorrors == 5
MaxSkillProjectiles == 2
MaxCasts == 1
MaxBounces == 2
MaxAwards == 3
MaxUpgrades == 2
MaxSessions == 2
MaxWaves == 21

MaxLevel == 12

MaxSessionAwards == 1

MaxFrames == 6

MaxTimerFrames == 3

LongDelta == 1300
\* orbiters the orbiting weapon may ask for
MaxOrbiters == 3

(* ------------------------- program constants --------------------------- *)
BULLET_SIZE == 10
BASE_BULLET_SPEED == 60
BASE_BULLET_DAMAGE == 10
BULLET_LIFETIME_SECONDS == 40
FIRE_RATE_SECONDS == 10
ENEMY_GRUNT_SIZE == 40
GRUNT_HEALTH == 20
GRUNT_SPEED == 10
GRUNT_DAMAGE_ON_COLLISION == 10
SCORE_PER_KILL == 10
AURA_TICK_SECONDS == 10
AURA_RADIUS == 150
AURA_DAMAGE_PER_TICK == 3
PLAYER_SIZE == 50
INITIAL_PLAYER_MAX_HEALTH == 100
INVINCIBILITY_SECONDS == 20
ENEMY_SPITTER_SIZE == 35
SPITTER_HEALTH == 15
SPITTER_SPEED == 8
SPITTER_DAMAGE_ON_COLLISION == 5
SPITTER_RANGE == 600
SPITTER_FIRE_RATE == 50
SPITTER_PROJECTILE_SPEED == 25
SPITTER_PROJECTILE_DAMAGE == 8
SPITTER_PROJECTILE_SIZE == 25
SPITTER_PROJECTILE_LIFETIME == 60
CHAIN_SEARCH_RADIUS == 500
MIN_COOLDOWN == 2
XP_LEVEL_INCREMENT == 500
ORBITER_DAMAGE_PER_HIT == 5
ORBITER_SPRITE_SIZE == 32
ORBIT_RADIUS == 80
ORBITER_ROTATION_SPEED == 3
ORBITER_HIT_COOLDOWN == 15
MAX_HEALTH_UPGRADE == 20
\* "Bound by Ichor", 1.0 HP/sec; regeneration rates are in units of 0.5 HP/sec
HEALTH_REGEN_UPGRADE == 2
PLAYER_SPEED == 250
INITIAL_MAX_ENEMIES == 20
MAX_ENEMIES_INCREMENT == 10
MAX_ENEMIES_CAP == 200
INITIAL_SPAWN_INTERVAL_SECONDS == 20000
MIN_SPAWN_INTERVAL_SECONDS == 3000
DIFFICULTY_INCREASE_INTERVAL_SECONDS == 600
GAME_TIMER_SECONDS == 72000

(* --------------------------- small helpers ----------------------------- *)
Abs(x) == IF x < 0 THEN -x ELSE x

Sign(x) == IF x > 0 THEN 1 ELSE IF x < 0 THEN -1 ELSE 0

Dist(a, b) == Abs(a - b)

\* ceil(h / d) for positive h, d
CeilDiv(h, d) == (h + d - 1) \div d

\* distance < size_a / 2 + size_b / 2, the distance d being in half units
Collides(d, sizeA, sizeB) == d < sizeA + sizeB

\* frame times: a run keeps one frame time (a fixed refresh rate)
Deltas == 1..MaxDelta

\* the frame time of the bullet runs: 50 ms
BulletDeltas == {1}

EnemyIds == 1..NumEnemies

BulletIds == 1..MaxBullets

EnemyProjectileIds == 1..MaxEnemyProjectiles

HorrorIds == 1..NumHorrors

SkillProjectileIds == 1..MaxSkillProjectiles

(* ------------------------------ timers --------------------------------- *)
Timer(duration, mode) ==
    [dur |-> duration, mode |-> mode, elapsed |-> 0, finished |-> FALSE,
     times |-> 0, paused |-> FALSE]

TimerTick(t, d) ==
    IF t.paused
    THEN [t EXCEPT !.times = 0,
                   !.finished = IF t.mode = "Repeating" THEN FALSE ELSE @]
    ELSE IF t.mode # "Repeating" /\ t.finished
    THEN [t EXCEPT !.times = 0]
    ELSE LET e == t.elapsed + d IN
         IF e >= t.dur
         THEN IF t.mode = "Repeating"
              THEN [t EXCEPT !.elapsed = e % t.dur, !.finished = TRUE,
                             !.times = e \div t.dur]
              ELSE [t EXCEPT !.elapsed = t.dur, !.finished = TRUE, !.times = 1]
         ELSE [t EXCEPT !.elapsed = e, !.finished = FALSE, !.times = 0]

TimerJustFinished(t) == t.times > 0

TimerReset(t) == [t EXCEPT !.elapsed = 0, !.finished = FALSE, !.times = 0]

(* ------------------------------- state --------------------------------- *)
VARIABLES
    systems,    \* the systems of the Update schedule that the run includes
    stage,      \* "idle" between frames, "update" while the Update schedule runs
    dt,         \* Time::delta of the frames of the run
    ran,        \* systems that have run in the current frame
    cmds,       \* deferred commands not yet applied
    appState,   \* State<AppState>
    nextState,  \* NextState<AppState>, "none" when unset
    player,     \* Player + Health + Transform + GlobalTransform
    weapon,     \* BasicWeapon.fire_rate
    aura,       \* AoeAuraWeapon
    enemies,    \* EnemyIds -> Enemy + Health + SpitterBehavior + transforms
    bullets,    \* BulletIds -> Bullet + Damage + Velocity + Lifetime + transforms
    eprojs,     \* EnemyProjectileIds -> EnemyProjectile + Damage + Velocity + Lifetime
    orbs,       \* experience orbs in the world
    score,      \* GameState.score
    hist,       \* history of the damaging hits on the player (observation only)
    survivor,   \* the caster: Transform, aim direction and its ActiveSkillInstance
    sprojs,     \* SkillProjectileIds -> SkillProjectile + Damage + Velocity + Lifetime
    horrors,    \* HorrorIds -> Horror + Health + GlobalTransform
    chain,      \* casts made and successors spawned per cast (observation only)
    stats,      \* Player progression and upgrade fields + OrbitingProjectileWeapon
    game,       \* GameState timers and wave, EnemySpawnTimer, MaxEnemies
    events,     \* Events<UpgradeChosenEvent> and the cursors of its two readers
    sess,       \* history of the session: phases entered, awards, upgrades (observation only)
    orbiters,   \* the player's Orbiter children, in Children order
    effects     \* ActiveSkillAoEEffect and FreezingNovaEffect entities, in spawn order

baseVars == <<appState, nextState, player, weapon, aura, enemies, bullets, eprojs, orbs,
              score, hist>>

skillVars == <<survivor, sprojs, horrors, chain>>

sessionVars == <<stats, game, events, sess>>

effectVars == <<orbiters, effects>>

vars == <<systems, stage, dt, ran, cmds, baseVars, skillVars, sessionVars, effectVars>>

NoBullet ==
    [live |-> FALSE, pos |-> 0, gpos |-> 0, vel |-> 0, dmg |-> 0,
     piercing_left |-> 0, life |-> Timer(BULLET_LIFETIME_SECONDS, "Once"),
     n0 |-> 0, hitlog |-> <<>>]

NoEnemyProjectile ==
    [live |-> FALSE, pos |-> 0, gpos |-> 0, vel |-> 0, dmg |-> 0,
     life |-> Timer(SPITTER_PROJECTILE_LIFETIME, "Once")]

NoSkillProjectile ==
    [live |-> FALSE, pos |-> 0, gpos |-> 0, vel |-> 0, dmg |-> 0, size |-> 0,
     skill_id |-> 0, piercing_left |-> 0, bounces_left |-> 0,
     already_hit_by_this_projectile |-> <<>>,
     life |-> Timer(BULLET_LIFETIME_SECONDS, "Once"),
     n0 |-> 0, b0 |-> 0, seed |-> {}, chain |-> 0, gen |-> 0,
     dmglog |-> <<>>, seen |-> {}, fate |-> "none", passed |-> 0]

\* no Frozen component
NoFrozen == [some |-> FALSE, timer |-> Timer(1, "Once"), speed_multiplier |-> 100]

Cmd(op, by, id, pos, b) == [op |-> op, by |-> by, id |-> id, pos |-> pos, b |-> b]

(* ------------------------ the Update schedule -------------------------- *)
BulletChain ==
    <<"projectile_movement_system", "bullet_collision_system", "bullet_lifetime_system">>

PlayerChain ==
    <<"player_shooting_system", "player_health_regeneration_system",
      "player_enemy_collision_system",
      "player_invincibility_system", "check_player_death_system">>

EnemyChain ==
    <<"enemy_spawn_system", "enemy_movement_system", "spitter_shooting_logic",
      "enemy_projectile_collision_system", "enemy_projectile_lifetime_system">>

WeaponsChain ==
    <<"aoe_aura_weapon_system", "manage_orbiters_system", "orbiter_movement_system",
      "orbiter_collision_system">>

SkillChain ==
    <<"active_skill_cooldown_recharge_system", "survivor_skill_input_system",
      "skill_projectile_lifetime_system", "skill_projectile_collision_system",
      "active_skill_aoe_system", "freezing_nova_effect_damage_system">>

GameChain ==
    <<"update_game_timer", "difficulty_scaling_system", "global_debug_key_listener">>

AllChains == {BulletChain, PlayerChain, EnemyChain, WeaponsChain, SkillChain, GameChain}

\* the systems of the run that run before s in its chain
ChainPreds(s) ==
    systems \cap
    UNION {{c[i] : i \in {j \in 1..Len(c) : \E k \in (j+1)..Len(c) : c[k] = s}} : c \in AllChains}

\* s may run now: not yet run this frame, its chain predecessors have run and
\* their commands have been applied
Ready(s) ==
    /\ stage = "update"
    /\ s \in systems
    /\ s \notin ran
    /\ ChainPreds(s) \subseteq ran
    /\ \A i \in 1..Len(cmds) : cmds[i].by \notin ChainPreds(s)

(* --------------------------- deferred commands ------------------------- *)
FreeSlots(bs) == {b \in BulletIds : ~bs[b].live}

LowestFree(bs) == CHOOSE b \in FreeSlots(bs) : \A c \in FreeSlots(bs) : b <= c

FreeProjectileSlots(ps) == {k \in EnemyProjectileIds : ~ps[k].live}

LowestFreeProjectile(ps) ==
    CHOOSE k \in FreeProjectileSlots(ps) : \A c \in FreeProjectileSlots(ps) : k <= c

FreeSkillSlots(ps) == {p \in SkillProjectileIds : ~ps[p].live}

LowestFreeSkillSlot(ps) == CHOOSE p \in FreeSkillSlots(ps) : \A c \in FreeSkillSlots(ps) : p <= c

PendingSkillSpawns == Cardinality({i \in 1..Len(cmds) : cmds[i].op = "spawn_sproj"})

\* the entity id a spawn gets among the entities es: the lowest id not in use
FreshEntity(es) ==
    CHOOSE i \in 1..(Len(es) + 1) : \A k \in 1..Len(es) : es[k].id # i

\* commands.entity(e).despawn_recursive() applied to an entity whose liveness is
\* live: the entity is gone afterwards; for one that is gone already Bevy logs a
\* warning and changes nothing
DespawnEntity_toggle(live) == ~live

DespawnEntity(live) == FALSE

\* one command applied to the world w = [bullets, enemies, eprojs, orbs, sprojs,
\* orbiters, effects, horrors]; a despawn of an entity that is gone changes nothing
ApplyCmd(w, c) ==
    IF c.op = "spawn_bullet"
    THEN [w EXCEPT !.bullets[LowestFree(w.bullets)] = c.b]
    ELSE IF c.op = "despawn_bullet"
    THEN [w EXCEPT !.bullets[c.id] = NoBullet]
    ELSE IF c.op = "spawn_eproj"
    THEN [w EXCEPT !.eprojs[LowestFreeProjectile(w.eprojs)] = c.b]
    ELSE IF c.op = "despawn_eproj"
    THEN [w EXCEPT !.eprojs[c.id] = NoEnemyProjectile]
    ELSE IF c.op = "spawn_sproj"
    THEN [w EXCEPT !.sprojs[LowestFreeSkillSlot(w.sprojs)] = c.b]
    ELSE IF c.op = "despawn_sproj"
    THEN [w EXCEPT !.sprojs[c.id] = NoSkillProjectile]
    ELSE IF c.op = "despawn_enemy"
    THEN [w EXCEPT !.enemies[c.id].live = DespawnEntity(@)]
    ELSE IF c.op = "despawn_player"
    THEN w
    ELSE IF c.op = "spawn_enemy"
    THEN [w EXCEPT !.enemies[CHOOSE e \in EnemyIds :
                                /\ ~w.enemies[e].live
                                /\ \A f \in EnemyIds : ~w.enemies[f].live => e <= f] = c.b]
    ELSE IF c.op = "spawn_orbiter"
    THEN [w EXCEPT !.orbiters = Append(@, [c.b EXCEPT !.id = FreshEntity(w.orbiters)])]
    ELSE IF c.op = "despawn_orbiter"
    THEN [w EXCEPT !.orbiters = SelectSeq(@, LAMBDA o : o.id # c.id)]
    ELSE IF c.op = "spawn_effect"
    THEN [w EXCEPT !.effects = Append(@, [c.b EXCEPT !.id = FreshEntity(w.effects)])]
    ELSE IF c.op = "despawn_effect"
    THEN [w EXCEPT !.effects = SelectSeq(@, LAMBDA f : f.id # c.id)]
    ELSE IF c.op = "insert_frozen"
    THEN [w EXCEPT !.horrors[c.id].frozen = IF w.horrors[c.id].live THEN c.b ELSE @]
    ELSE [w EXCEPT !.orbs = Append(@, [pos |-> c.pos, from |-> c.id])]

RECURSIVE ApplyAll(_, _)
ApplyAll(w, cs) == IF cs = <<>> THEN w ELSE ApplyAll(ApplyCmd(w, Head(cs)), Tail(cs))

Flushed ==
    ApplyAll([bullets |-> bullets, enemies |-> enemies, eprojs |-> eprojs, orbs |-> orbs,
              sprojs |-> sprojs, orbiters |-> orbiters, effects |-> effects,
              horrors |-> horrors], cmds)

PendingSpawns == Cardinality({i \in 1..Len(cmds) : cmds[i].op = "spawn_bullet"})

PendingProjectileSpawns == Cardinality({i \in 1..Len(cmds) : cmds[i].op = "spawn_eproj"})

(* ------------------------------ systems -------------------------------- *)
\* player_shooting_system
VolleySize == 1 + player.additional_projectiles

SpawnBullet(position, direction, damage, speed, piercing) ==
    [live |-> TRUE, pos |-> position, gpos |-> 0, vel |-> direction * speed,
     dmg |-> damage, piercing_left |-> piercing,
     life |-> Timer(BULLET_LIFETIME_SECONDS, "Once"),
     n0 |-> piercing, hitlog |-> <<>>]

player_shooting_system ==
    /\ Ready("player_shooting_system")
    /\ LET w == TimerTick(weapon, dt)
           fire == TimerJustFinished(w) /\ player.aim_direction # 0
           b == SpawnBullet(player.pos, player.aim_direction,
                            BASE_BULLET_DAMAGE + player.bullet_damage_bonus,
                            BASE_BULLET_SPEED, player.projectile_piercing)
       IN /\ weapon' = w
          /\ fire => Cardinality(FreeSlots(bullets)) >= PendingSpawns + VolleySize
          /\ cmds' = IF fire
                     THEN cmds \o [i \in 1..VolleySize |->
                                     Cmd("spawn_bullet", "player_shooting_system", 0, 0, b)]
                     ELSE cmds
    /\ ran' = ran \cup {"player_shooting_system"}
    /\ UNCHANGED <<effectVars, sessionVars, systems, stage, dt, appState, nextState, player, aura, enemies,
                   bullets, eprojs, orbs, score, hist, skillVars>>

\* enemy_movement_system
MoveEnemy(en) ==
    IF ~en.live THEN en
    ELSE LET should_move == ~(en.spitter.some /\
                              Dist(en.pos, player.pos) <= en.spitter.shooting_range)
             direction_to_player == Sign(player.pos - en.pos)
         IN IF should_move
            THEN [en EXCEPT !.pos = @ + direction_to_player * en.speed * dt]
            ELSE en

enemy_movement_system ==
    /\ Ready("enemy_movement_system")
    /\ enemies' = [e \in EnemyIds |-> MoveEnemy(enemies[e])]
    /\ ran' = ran \cup {"enemy_movement_system"}
    /\ UNCHANGED <<effectVars, sessionVars, systems, stage, dt, cmds, appState, nextState, player, weapon, aura,
                   bullets, eprojs, orbs, score, hist, skillVars>>

\* projectile_movement_system
MoveBullet(b) == IF b.live THEN [b EXCEPT !.pos = @ + b.vel * dt] ELSE b

projectile_movement_system ==
    /\ Ready("projectile_movement_system")
    /\ bullets' = [b \in BulletIds |-> MoveBullet(bullets[b])]
    /\ eprojs' = [k \in EnemyProjectileIds |-> MoveBullet(eprojs[k])]
    /\ ran' = ran \cup {"projectile_movement_system"}
    /\ UNCHANGED <<effectVars, sessionVars, systems, stage, dt, cmds, appState, nextState, player, weapon, aura,
                   enemies, orbs, score, hist, skillVars>>

\* bullet_collision_system
IsDead_strict(health) == health < 0

IsDead(health) == health <= 0

PierceAfterHit_kept(piercing_left) == piercing_left

PierceAfterHit(piercing_left) == piercing_left - 1

OrbPosition(en) == en.pos

\* the inner loop: bullet b against the enemies k, k+1, ...
RECURSIVE BulletHitLoop(_, _, _)
BulletHitLoop(b, k, st) ==
    IF k > NumEnemies THEN st
    ELSE LET en == st.enemies[k]
             bu == st.bullets[b]
         IN IF ~en.live \/ k \in st.already_hit_this_frame
            THEN BulletHitLoop(b, k + 1, st)
            ELSE IF Collides(Dist(bu.gpos, en.gpos), BULLET_SIZE, en.size)
            THEN LET h == en.health - bu.dmg
                     st1 == [st EXCEPT !.enemies[k].health = h,
                                       !.enemies[k].nhits = @ + 1,
                                       !.already_hit_this_frame = @ \cup {k},
                                       !.bullets[b].hitlog = Append(@, k)]
                     st2 == IF IsDead(h)
                            THEN [st1 EXCEPT
                                    !.cmds = @ \o <<Cmd("despawn_enemy", "bullet_collision_system", k, 0, NoBullet),
                                                    Cmd("spawn_orb", "bullet_collision_system", k, OrbPosition(en), NoBullet)>>,
                                    !.score = @ + SCORE_PER_KILL,
                                    !.enemies[k].death_hit = IF @ = 0 THEN en.nhits + 1 ELSE @,
                                    !.enemies[k].death_pos = IF en.death_hit = 0 THEN en.pos ELSE @]
                            ELSE st1
                 IN IF bu.piercing_left > 0
                    THEN BulletHitLoop(b, k + 1,
                             [st2 EXCEPT !.bullets[b].piercing_left = PierceAfterHit(@)])
                    ELSE [st2 EXCEPT !.cmds = Append(@, Cmd("despawn_bullet", "bullet_collision_system", b, 0, NoBullet))]
            ELSE BulletHitLoop(b, k + 1, st)

\* the outer loop: every bullet, each with a fresh already_hit_this_frame
RECURSIVE BulletLoop(_, _)
BulletLoop(b, st) ==
    IF b > MaxBullets THEN st
    ELSE IF ~st.bullets[b].live THEN BulletLoop(b + 1, st)
    ELSE BulletLoop(b + 1, BulletHitLoop(b, 1, [st EXCEPT !.already_hit_this_frame = {}]))

bullet_collision_system ==
    /\ Ready("bullet_collision_system")
    /\ LET st == BulletLoop(1, [bullets |-> bullets, enemies |-> enemies, score |-> score,
                                cmds |-> cmds, already_hit_this_frame |-> {}])
       IN /\ bullets' = st.bullets
          /\ enemies' = st.enemies
          /\ score' = st.score
          /\ cmds' = st.cmds
    /\ ran' = ran \cup {"bullet_collision_system"}
    /\ UNCHANGED <<effectVars, sessionVars, systems, stage, dt, appState, nextState, player, weapon, aura,
                   eprojs, orbs, hist, skillVars>>

\* bullet_lifetime_system
TickLifetime_stopped(b) == b

TickLifetime(b) == IF b.live THEN [b EXCEPT !.life = TimerTick(@, dt)] ELSE b

RECURSIVE LifetimeDespawns(_, _)
LifetimeDespawns(b, bs) ==
    IF b > MaxBullets THEN <<>>
    ELSE (IF bs[b].live /\ TimerJustFinished(bs[b].life)
          THEN <<Cmd("despawn_bullet", "bullet_lifetime_system", b, 0, NoBullet)>>
          ELSE <<>>) \o LifetimeDespawns(b + 1, bs)

bullet_lifetime_system ==
    /\ Ready("bullet_lifetime_system")
    /\ bullets' = [b \in BulletIds |-> TickLifetime(bullets[b])]
    /\ cmds' = cmds \o LifetimeDespawns(1, bullets')
    /\ ran' = ran \cup {"bullet_lifetime_system"}
    /\ UNCHANGED <<effectVars, sessionVars, systems, stage, dt, appState, nextState, player, weapon, aura,
                   enemies, eprojs, orbs, score, hist, skillVars>>

\* aoe_aura_weapon_system
InAura(en) == (player.pos - en.pos) * (player.pos - en.pos) < aura.current_radius * aura.current_radius

AuraDamage(en) ==
    IF en.live /\ InAura(en)
    THEN [en EXCEPT !.health = @ - aura.base_damage_per_tick, !.aura_hits = @ + 1]
    ELSE en

aoe_aura_weapon_system ==
    /\ Ready("aoe_aura_weapon_system")
    /\ IF ~aura.is_active
       THEN UNCHANGED <<aura, enemies>>
       ELSE LET t == TimerTick(aura.damage_tick_timer, dt)
            IN /\ aura' = [aura EXCEPT !.damage_tick_timer = t]
               /\ enemies' = IF TimerJustFinished(t)
                             THEN [e \in EnemyIds |-> AuraDamage(enemies[e])]
                             ELSE enemies
    /\ ran' = ran \cup {"aoe_aura_weapon_system"}
    /\ UNCHANGED <<effectVars, sessionVars, systems, stage, dt, cmds, appState, nextState, player, weapon,
                   bullets, eprojs, orbs, score, hist, skillVars>>

(* ----------------------- systems: orbiting seeds ----------------------- *)
\* bearings are in units of 1.5 degrees: a full turn is 2 * PI
FullTurn == 240

\* (current_orbiter_count + i) * (2 * PI / num_orbiters.max(1))
AngleOffset(index, num_orbiters) ==
    (index * FullTurn) \div (IF num_orbiters > 1 THEN num_orbiters ELSE 1)

\* a new Orbiter with Damage(damage_per_hit); its GlobalTransform is the identity
\* (gangle = -1) until PostUpdate
SpawnOrbiter(angle_offset, damage_per_hit) ==
    [id |-> 0, angle |-> angle_offset, gangle |-> -1, dmg |-> damage_per_hit,
     enemies_on_cooldown |-> <<>>,
     since |-> [e \in EnemyIds |-> -1], gap |-> [e \in EnemyIds |-> -1],
     hit_now |-> {}, skipped |-> {}]

NumToSpawn_all(current_orbiter_count, num_orbiters) == num_orbiters

NumToSpawn(current_orbiter_count, num_orbiters) == num_orbiters - current_orbiter_count

\* the commands of one reconciliation of the orbiters os with the weapon
Reconcile(os, is_active, num_orbiters, damage_per_hit) ==
    LET current_orbiter_count == Len(os)
        despawn(k) == Cmd("despawn_orbiter", "manage_orbiters_system", os[k].id, 0, NoBullet)
    IN IF ~is_active
       THEN [k \in 1..current_orbiter_count |-> despawn(k)]
       ELSE IF current_orbiter_count < num_orbiters
       THEN [i \in 1..NumToSpawn(current_orbiter_count, num_orbiters) |->
                Cmd("spawn_orbiter", "manage_orbiters_system", 0, 0,
                    SpawnOrbiter(AngleOffset(current_orbiter_count + i - 1, num_orbiters),
                                 damage_per_hit))]
       ELSE IF current_orbiter_count > num_orbiters
       THEN [k \in 1..(current_orbiter_count - num_orbiters) |-> despawn(k)]
       ELSE <<>>

\* runs for a player whose OrbitingProjectileWeapon changed since the last run
manage_orbiters_system ==
    /\ Ready("manage_orbiters_system")
    /\ cmds' = cmds \o
               IF player.live /\ stats.orbiting_changed
               THEN Reconcile(orbiters, stats.orbiting_active, stats.num_orbiters,
                              stats.orbiter_damage)
               ELSE <<>>
    /\ stats' = [stats EXCEPT !.orbiting_changed = FALSE,
                              !.count_before = IF player.live /\ stats.orbiting_changed
                                               THEN Len(orbiters) ELSE -1]
    /\ ran' = ran \cup {"manage_orbiters_system"}
    /\ UNCHANGED <<systems, stage, dt, baseVars, skillVars, game, events, sess, orbiters,
                   effects>>

\* orbiter.angle += rotation_speed * delta, modulo 2 * PI
MoveOrbiter(o) == [o EXCEPT !.angle = (@ + ORBITER_ROTATION_SPEED * dt) % FullTurn]

orbiter_movement_system ==
    /\ Ready("orbiter_movement_system")
    /\ orbiters' = IF player.live /\ stats.orbiting_active /\ stats.num_orbiters # 0
                   THEN [k \in 1..Len(orbiters) |-> MoveOrbiter(orbiters[k])]
                   ELSE orbiters
    /\ ran' = ran \cup {"orbiter_movement_system"}
    /\ UNCHANGED <<systems, stage, dt, cmds, baseVars, skillVars, sessionVars, effects>>

\* distance between two points of the orbit circle (orbit_radius 80) that are k
\* units of bearing apart, in half world units, rounded down: OrbitChord[k + 1]
OrbitChord ==
    <<
      0, 4, 8, 12, 16, 20, 25, 29, 33, 37, 41, 45,
      50, 54, 58, 62, 66, 70, 74, 78, 82, 86, 90, 94,
      98, 102, 106, 110, 114, 118, 122, 126, 130, 133, 137, 141,
      145, 148, 152, 156, 160, 163, 167, 170, 174, 177, 181, 184,
      188, 191, 194, 198, 201, 204, 207, 210, 214, 217, 220, 223,
      226, 229, 232, 234, 237, 240, 243, 246, 248, 251, 253, 256,
      258, 261, 263, 266, 268, 270, 272, 275, 277, 279, 281, 283,
      285, 286, 288, 290, 292, 294, 295, 297, 298, 300, 301, 303,
      304, 305, 306, 307, 309, 310, 311, 312, 313, 313, 314, 315,
      316, 316, 317, 317, 318, 318, 319, 319, 319, 319, 319, 319,
      320
    >>

AngularDistance(a, b) ==
    LET d == (a - b) % FullTurn IN IF 2 * d > FullTurn THEN FullTurn - d ELSE d

\* orbiter_pos.distance(enemy_pos): the enemy stands on the orbit circle, the
\* player at the world origin, where an orbiter not yet propagated is too
OrbiterDistance(o, en) ==
    IF o.gangle < 0 THEN 2 * ORBIT_RADIUS
    ELSE OrbitChord[AngularDistance(o.gangle, en.gpos) + 1]

\* retain_mut: every cooldown timer is ticked, the finished ones are dropped
TickCooldowns(cds) ==
    SelectSeq([i \in 1..Len(cds) |-> [cds[i] EXCEPT !.timer = TimerTick(@, dt)]],
              LAMBDA c : ~c.timer.finished)

OnCooldown_never(o, enemy_entity) == FALSE

OnCooldown(o, enemy_entity) ==
    \E i \in 1..Len(o.enemies_on_cooldown) : o.enemies_on_cooldown[i].entity = enemy_entity

\* the inner loop: orbiter number i against the enemies k, k+1, ...
RECURSIVE OrbiterHitLoop(_, _, _)
OrbiterHitLoop(i, k, st) ==
    IF k > NumEnemies THEN st
    ELSE LET en == st.enemies[k]
             o == st.orbiters[i]
             touches == Collides(OrbiterDistance(o, en), ORBITER_SPRITE_SIZE, en.size)
         IN IF ~en.live THEN OrbiterHitLoop(i, k + 1, st)
            ELSE IF OnCooldown(o, k)
            THEN OrbiterHitLoop(i, k + 1,
                     [st EXCEPT !.orbiters[i].skipped =
                                    IF touches THEN @ \cup {k} ELSE @])
            ELSE IF touches
            THEN LET h == en.health - o.dmg
                     st1 == [st EXCEPT
                               !.enemies[k].health = h,
                               !.enemies[k].nhits = @ + 1,
                               !.orbiters[i].enemies_on_cooldown =
                                   Append(@, [entity |-> k,
                                              timer |-> Timer(ORBITER_HIT_COOLDOWN, "Once")]),
                               !.orbiters[i].gap[k] = o.since[k],
                               !.orbiters[i].since[k] = 0,
                               !.orbiters[i].hit_now = @ \cup {k}]
                 IN OrbiterHitLoop(i, k + 1,
                        IF IsDead(h)
                        THEN [st1 EXCEPT
                                !.cmds = @ \o <<Cmd("despawn_enemy", "orbiter_collision_system", k, 0, NoBullet),
                                                Cmd("spawn_orb", "orbiter_collision_system", k, OrbPosition(en), NoBullet)>>,
                                !.score = @ + SCORE_PER_KILL]
                        ELSE st1)
            ELSE OrbiterHitLoop(i, k + 1, st)

\* time since the last hit of orbiter o on each enemy, up to the cooldown
Aged(o) ==
    [o EXCEPT !.since = [e \in EnemyIds |->
                            IF o.since[e] < 0 THEN -1
                            ELSE IF o.since[e] + dt > ORBITER_HIT_COOLDOWN
                            THEN ORBITER_HIT_COOLDOWN ELSE o.since[e] + dt],
              !.hit_now = {}, !.skipped = {}]

\* the outer loop: every orbiter
RECURSIVE OrbiterLoop(_, _)
OrbiterLoop(i, st) ==
    IF i > Len(st.orbiters) THEN st
    ELSE OrbiterLoop(i + 1,
             OrbiterHitLoop(i, 1,
                 [st EXCEPT !.orbiters[i] =
                     [Aged(@) EXCEPT !.enemies_on_cooldown = TickCooldowns(@)]]))

orbiter_collision_system ==
    /\ Ready("orbiter_collision_system")
    /\ LET st == IF player.live /\ stats.orbiting_active
                 THEN OrbiterLoop(1, [orbiters |-> orbiters, enemies |-> enemies,
                                      score |-> score, cmds |-> cmds])
                 ELSE [orbiters |-> orbiters, enemies |-> enemies, score |-> score,
                       cmds |-> cmds]
       IN /\ orbiters' = st.orbiters
          /\ enemies' = st.enemies
          /\ score' = st.score
          /\ cmds' = st.cmds
    /\ ran' = ran \cup {"orbiter_collision_system"}
    /\ UNCHANGED <<systems, stage, dt, appState, nextState, player, weapon, aura, bullets,
                   eprojs, orbs, hist, skillVars, sessionVars, effects>>

(* ------------------ systems: the player under attack ------------------- *)
\* a damaging hit lands on the player: recorded in the history
RecordHit(h) ==
    [h EXCEPT !.hits = @ + 1, !.hits_this_tick = @ + 1, !.last_gap = h.since_hit,
              !.since_hit = 0, !.hit_dt = dt, !.prev_hit_dt = h.hit_dt]

\* player_health_regeneration_system
\* (health as f32 + health_regen_rate * delta_seconds).round() - health: the
\* rate in units of 0.5 HP/sec over dt steps of 50 ms is rate * dt / 40 HP
RegenAmount(rate) == (rate * dt + 20) \div 40

ClampToMax_off(health, max_health) == health

ClampToMax(health, max_health) == IF health < max_health THEN health ELSE max_health

\* starved: the steps of 50 ms over which the player was regenerating, took no
\* damage and gained no health
Regenerates(pl) == pl.health_regen_rate > 0 /\ pl.health > 0 /\ pl.health < pl.max_health

player_health_regeneration_system ==
    /\ Ready("player_health_regeneration_system")
    /\ player' = IF player.live /\ Regenerates(player)
                 THEN [player EXCEPT
                         !.health = ClampToMax(@ + RegenAmount(player.health_regen_rate),
                                               player.max_health),
                         !.unclamped = player.health + RegenAmount(player.health_regen_rate),
                         !.starved = IF RegenAmount(player.health_regen_rate) > 0
                                     THEN 0 ELSE @ + dt]
                 ELSE [player EXCEPT !.unclamped = 0, !.starved = 0]
    /\ ran' = ran \cup {"player_health_regeneration_system"}
    /\ UNCHANGED <<effectVars, sessionVars, systems, stage, dt, cmds, appState, nextState, weapon,
                   aura, enemies, bullets, eprojs, orbs, score, hist, skillVars>>

\* player_enemy_collision_system
ContactMayHit(timer) == timer.finished

RECURSIVE ContactLoop(_, _)
ContactLoop(k, st) ==
    IF k > NumEnemies THEN st
    ELSE LET en == enemies[k]
         IN IF /\ en.live
               /\ Collides(Dist(st.player.pos, en.pos), PLAYER_SIZE, en.size)
               /\ ContactMayHit(st.player.invincibility_timer)
            THEN ContactLoop(k + 1,
                     [st EXCEPT !.player.health = @ - en.damage_on_collision,
                                !.player.invincibility_timer = TimerReset(@),
                                !.hist = RecordHit(@)])
            ELSE ContactLoop(k + 1, st)

player_enemy_collision_system ==
    /\ Ready("player_enemy_collision_system")
    /\ IF ~player.invincibility_timer.finished
       THEN UNCHANGED <<player, hist>>
       ELSE LET st == ContactLoop(1, [player |-> player, hist |-> hist])
            IN /\ player' = [st.player EXCEPT
                                !.starved = IF st.player.health < player.health THEN 0 ELSE @]
               /\ hist' = st.hist
    /\ ran' = ran \cup {"player_enemy_collision_system"}
    /\ UNCHANGED <<effectVars, sessionVars, systems, stage, dt, cmds, appState, nextState, weapon, aura, enemies,
                   bullets, eprojs, orbs, score, skillVars>>

\* player_invincibility_system
player_invincibility_system ==
    /\ Ready("player_invincibility_system")
    /\ player' = IF player.health <= 0 THEN player
                 ELSE IF ~player.invincibility_timer.finished
                 THEN [player EXCEPT !.invincibility_timer = TimerTick(@, dt)]
                 ELSE player
    /\ ran' = ran \cup {"player_invincibility_system"}
    /\ UNCHANGED <<effectVars, sessionVars, systems, stage, dt, cmds, appState, nextState, weapon, aura, enemies,
                   bullets, eprojs, orbs, score, hist, skillVars>>

\* check_player_death_system
check_player_death_system ==
    /\ Ready("check_player_death_system")
    /\ nextState' = IF player.health <= 0 /\ appState = "InGame" THEN "GameOver" ELSE nextState
    /\ sess' = [sess EXCEPT !.dead_pending = @ \/ (player.health <= 0 /\ appState = "InGame")]
    /\ ran' = ran \cup {"check_player_death_system"}
    /\ UNCHANGED <<effectVars, stats, game, events, systems, stage, dt, cmds, appState, player, weapon,
                   aura, enemies, bullets, eprojs, orbs, score, hist, skillVars>>

\* spitter_shooting_logic
SpawnSpitterProjectile(position, direction, speed, damage) ==
    [live |-> TRUE, pos |-> position, gpos |-> 0, vel |-> direction * speed,
     dmg |-> damage, life |-> Timer(SPITTER_PROJECTILE_LIFETIME, "Once")]

SpitterInRange(en) ==
    en.live /\ en.spitter.some /\ Dist(player.pos, en.gpos) <= en.spitter.shooting_range

SpitterTick(en) ==
    IF SpitterInRange(en) THEN [en EXCEPT !.spitter.fire_timer = TimerTick(@, dt)] ELSE en

RECURSIVE SpitterShots(_, _)
SpitterShots(k, es) ==
    IF k > NumEnemies THEN <<>>
    ELSE (IF SpitterInRange(es[k]) /\ TimerJustFinished(es[k].spitter.fire_timer)
          THEN <<Cmd("spawn_eproj", "spitter_shooting_logic", k, 0,
                     SpawnSpitterProjectile(es[k].gpos, Sign(player.pos - es[k].gpos),
                                            es[k].spitter.projectile_speed,
                                            es[k].spitter.projectile_damage))>>
          ELSE <<>>) \o SpitterShots(k + 1, es)

spitter_shooting_logic ==
    /\ Ready("spitter_shooting_logic")
    /\ enemies' = [e \in EnemyIds |-> SpitterTick(enemies[e])]
    /\ LET shots == SpitterShots(1, enemies')
       IN /\ Cardinality(FreeProjectileSlots(eprojs)) >= PendingProjectileSpawns + Len(shots)
          /\ cmds' = cmds \o shots
    /\ ran' = ran \cup {"spitter_shooting_logic"}
    /\ UNCHANGED <<effectVars, sessionVars, systems, stage, dt, appState, nextState, player, weapon, aura,
                   bullets, eprojs, orbs, score, hist, skillVars>>

\* enemy_projectile_collision_system
ProjectileMayHit_always(timer) == TRUE

ProjectileMayHit(timer) == timer.finished

\* the despawn of an overlapping projectile stands outside the timer test
DespawnOnContact_ifLanded(landed) == landed

DespawnOnContact(landed) == TRUE

RECURSIVE ProjectileLoop(_, _)
ProjectileLoop(k, st) ==
    IF k > MaxEnemyProjectiles THEN st
    ELSE LET pr == eprojs[k]
         IN IF pr.live /\ Collides(Dist(pr.gpos, st.player.gpos), SPITTER_PROJECTILE_SIZE, PLAYER_SIZE)
            THEN LET landed == ProjectileMayHit(st.player.invincibility_timer)
                     st1 == IF landed
                            THEN [st EXCEPT !.player.health = @ - pr.dmg,
                                            !.player.invincibility_timer = TimerReset(@),
                                            !.hist = RecordHit(@)]
                            ELSE st
                 IN ProjectileLoop(k + 1,
                        IF DespawnOnContact(landed)
                        THEN [st1 EXCEPT !.cmds = Append(@, Cmd("despawn_eproj",
                                                 "enemy_projectile_collision_system",
                                                 k, 0, NoEnemyProjectile))]
                        ELSE st1)
            ELSE ProjectileLoop(k + 1, st)

enemy_projectile_collision_system ==
    /\ Ready("enemy_projectile_collision_system")
    /\ LET st == ProjectileLoop(1, [player |-> player, hist |-> hist, cmds |-> cmds])
       IN player' = st.player /\ hist' = st.hist /\ cmds' = st.cmds
    /\ ran' = ran \cup {"enemy_projectile_collision_system"}
    /\ UNCHANGED <<effectVars, sessionVars, systems, stage, dt, appState, nextState, weapon, aura, enemies,
                   bullets, eprojs, orbs, score, skillVars>>

\* enemy_projectile_lifetime_system
RECURSIVE ProjectileLifetimeDespawns(_, _)
ProjectileLifetimeDespawns(k, ps) ==
    IF k > MaxEnemyProjectiles THEN <<>>
    ELSE (IF ps[k].live /\ TimerJustFinished(ps[k].life)
          THEN <<Cmd("despawn_eproj", "enemy_projectile_lifetime_system", k, 0, NoEnemyProjectile)>>
          ELSE <<>>) \o ProjectileLifetimeDespawns(k + 1, ps)

enemy_projectile_lifetime_system ==
    /\ Ready("enemy_projectile_lifetime_system")
    /\ eprojs' = [k \in EnemyProjectileIds |-> TickLifetime(eprojs[k])]
    /\ cmds' = cmds \o ProjectileLifetimeDespawns(1, eprojs')
    /\ ran' = ran \cup {"enemy_projectile_lifetime_system"}
    /\ UNCHANGED <<effectVars, sessionVars, systems, stage, dt, appState, nextState, player, weapon, aura, enemies,
                   bullets, orbs, score, hist, skillVars>>

(* ------------------------ systems: skill projectiles ------------------- *)
\* populate_skill_library: Eldritch Bolt (SkillId 1), Void Lance (SkillId 3),
\* Glacial Nova (SkillId 5) and Psychic Sentry (SkillId 6);
\* size is the larger sprite dimension, size_y the sprite height
SkillLibrary(id) ==
    IF id = 1
    THEN [base_cooldown |-> 30, base_damage |-> 25, speed |-> 65, size |-> 28,
          size_y |-> 28, lifetime_secs |-> 50, piercing |-> 0]
    ELSE IF id = 3
    THEN [base_cooldown |-> 50, base_damage |-> 40, speed |-> 40, size |-> 40,
          size_y |-> 40, lifetime_secs |-> 60, piercing |-> 2]
    ELSE IF id = 5
    THEN [base_cooldown |-> 200, damage |-> 20, radius |-> 200, nova_duration_secs |-> 10,
          slow_multiplier |-> 50, slow_duration_secs |-> 60]
    ELSE [base_cooldown |-> 360, sentry_damage_per_tick |-> 15, sentry_radius |-> 100,
          sentry_tick_interval_secs |-> 15, sentry_duration_secs |-> 160]

ProjectileSkills == {1, 3}

Range(s) == {s[i] : i \in 1..Len(s)}

\* active_skill_cooldown_recharge_system (ActiveSkillInstance::tick_cooldown)
TickCooldown(skill, d) ==
    IF skill.current_cooldown > 0
    THEN [skill EXCEPT !.current_cooldown = IF @ > d THEN @ - d ELSE 0]
    ELSE skill

\* the time since the last cast, up to the cooldown that cast set
SinceCast(skill, d) ==
    [skill EXCEPT !.since = IF @ + d > skill.set_to THEN skill.set_to ELSE @ + d]

active_skill_cooldown_recharge_system ==
    /\ Ready("active_skill_cooldown_recharge_system")
    /\ survivor' = [survivor EXCEPT !.skill = SinceCast(TickCooldown(@, dt), dt)]
    /\ ran' = ran \cup {"active_skill_cooldown_recharge_system"}
    /\ UNCHANGED <<effectVars, sessionVars, systems, stage, dt, cmds, baseVars, sprojs, horrors, chain>>

\* survivor_skill_input_system
IsReady_always(skill) == TRUE

IsReady(skill) == skill.current_cooldown = 0

\* base_cooldown * cooldown_multiplier (a percentage here), at least 0.1 s
Trigger(skill, base_cooldown) ==
    LET modified_cooldown_secs == (base_cooldown * skill.cooldown_multiplier) \div 100
    IN [skill EXCEPT !.current_cooldown = IF modified_cooldown_secs > MIN_COOLDOWN
                                          THEN modified_cooldown_secs
                                          ELSE MIN_COOLDOWN]

\* a cast is recorded: the cooldown it set and the time since the cast before
Cast(skill, before) ==
    [skill EXCEPT !.set_to = skill.current_cooldown, !.since = 0,
                  !.gap = IF before.set_to = 0 THEN -1 ELSE before.since,
                  !.prev_set = before.set_to]

SpawnSkillProjectile(position, direction, def, skill_id, damage, piercing, bounces, hit, c, g) ==
    [live |-> TRUE, pos |-> position, gpos |-> 0, vel |-> direction * def.speed,
     dmg |-> damage, size |-> def.size, skill_id |-> skill_id,
     piercing_left |-> piercing, bounces_left |-> bounces,
     already_hit_by_this_projectile |-> hit,
     life |-> Timer(def.lifetime_secs, "Once"),
     n0 |-> piercing, b0 |-> bounces, seed |-> Range(hit), chain |-> c, gen |-> g,
     dmglog |-> <<>>, seen |-> {}, fate |-> "flying", passed |-> 0]

\* ActiveSkillAoEEffect of a summoned sentry, standing at `position`; lengths in
\* half world units
SpawnSentry(position, def, skill_id, sentry_damage_val) ==
    [id |-> 0, kind |-> "aoe", pos |-> position, gpos |-> 0, skill_id |-> skill_id,
     damage |-> sentry_damage_val, radius |-> 2 * def.sentry_radius,
     tick_timer |-> Timer(def.sentry_tick_interval_secs, "Repeating"),
     lifetime_timer |-> Timer(def.sentry_duration_secs, "Once"),
     slow_multiplier |-> 0, slow_duration_secs |-> 0,
     already_hit |-> <<>>, closed |-> FALSE,
     hits |-> [h \in HorrorIds |-> 0], elapses |-> 0, late |-> FALSE, passed_over |-> {}]

\* FreezingNovaEffect, standing at `position`
SpawnNova(position, def, skill_id, nova_damage_val) ==
    [id |-> 0, kind |-> "nova", pos |-> position, gpos |-> 0, skill_id |-> skill_id,
     damage |-> nova_damage_val, radius |-> 2 * def.radius,
     tick_timer |-> Timer(1, "Once"),
     lifetime_timer |-> Timer(def.nova_duration_secs, "Once"),
     slow_multiplier |-> def.slow_multiplier, slow_duration_secs |-> def.slow_duration_secs,
     already_hit |-> <<>>, closed |-> FALSE,
     hits |-> [h \in HorrorIds |-> 0], elapses |-> 0, late |-> FALSE, passed_over |-> {}]

\* the entity the skill spawns: a projectile, a nova or a sentry
SpawnOfSkill(skill, def, position) ==
    IF skill.definition_id \in ProjectileSkills
    THEN Cmd("spawn_sproj", "survivor_skill_input_system", 0, 0,
             SpawnSkillProjectile(position, survivor.aim_direction, def,
                 skill.definition_id, def.base_damage + skill.flat_damage_bonus,
                 def.piercing, skill.glyph_bounces, <<>>, chain.casts + 1, 0))
    ELSE IF skill.definition_id = 5
    THEN Cmd("spawn_effect", "survivor_skill_input_system", 0, 0,
             SpawnNova(survivor.pos, def, skill.definition_id,
                       def.damage + skill.flat_damage_bonus))
    ELSE Cmd("spawn_effect", "survivor_skill_input_system", 0, 0,
             SpawnSentry(survivor.pos, def, skill.definition_id,
                         def.sentry_damage_per_tick + skill.flat_damage_bonus))

\* a cast leaves one slot free for a successor of each live projectile
RoomToCast ==
    2 * (MaxSkillProjectiles - Cardinality(FreeSkillSlots(sprojs)) + PendingSkillSpawns + 1)
        <= MaxSkillProjectiles + 1

survivor_skill_input_system ==
    /\ Ready("survivor_skill_input_system")
    /\ \E just_pressed \in (IF survivor.eager /\ chain.casts < chain.budget
                            THEN {TRUE} ELSE BOOLEAN) :
         LET skill == survivor.skill
             def == SkillLibrary(skill.definition_id)
             position == IF skill.definition_id \in ProjectileSkills
                         THEN survivor.pos + survivor.aim_direction * (PLAYER_SIZE + def.size_y)
                         ELSE survivor.pos
             cast == /\ just_pressed
                     /\ IsReady(skill)
                     /\ skill.definition_id \in ProjectileSkills => survivor.aim_direction # 0
         IN /\ cast => chain.casts < chain.budget /\ RoomToCast
            /\ IF cast
               THEN /\ cmds' = Append(cmds, SpawnOfSkill(skill, def, position))
                    /\ survivor' = [survivor EXCEPT
                                       !.skill = Cast(Trigger(@, def.base_cooldown), skill)]
                    /\ chain' = [chain EXCEPT !.casts = @ + 1]
               ELSE UNCHANGED <<cmds, survivor, chain>>
    /\ ran' = ran \cup {"survivor_skill_input_system"}
    /\ UNCHANGED <<effectVars, sessionVars, systems, stage, dt, baseVars, sprojs, horrors>>

\* skill_projectile_lifetime_system
RECURSIVE SkillLifetimeDespawns(_, _)
SkillLifetimeDespawns(p, ps) ==
    IF p > MaxSkillProjectiles THEN <<>>
    ELSE (IF ps[p].live /\ TimerJustFinished(ps[p].life)
          THEN <<Cmd("despawn_sproj", "skill_projectile_lifetime_system", p, 0, NoBullet)>>
          ELSE <<>>) \o SkillLifetimeDespawns(p + 1, ps)

skill_projectile_lifetime_system ==
    /\ Ready("skill_projectile_lifetime_system")
    /\ sprojs' = [p \in SkillProjectileIds |-> TickLifetime(sprojs[p])]
    /\ cmds' = cmds \o SkillLifetimeDespawns(1, sprojs')
    /\ ran' = ran \cup {"skill_projectile_lifetime_system"}
    /\ UNCHANGED <<effectVars, sessionVars, systems, stage, dt, baseVars, survivor, horrors, chain>>

\* skill_projectile_collision_system
RunawayGuard_tight(pr) ==
    Len(pr.already_hit_by_this_projectile) > pr.piercing_left + pr.bounces_left

RunawayGuard(pr) ==
    Len(pr.already_hit_by_this_projectile) > pr.piercing_left + pr.bounces_left + 5

WithinChainRadius_inclusive(d) == d * d <= CHAIN_SEARCH_RADIUS * CHAIN_SEARCH_RADIUS

WithinChainRadius(d) == d * d < CHAIN_SEARCH_RADIUS * CHAIN_SEARCH_RADIUS

\* the horrors the chain may continue to from the horror `hit`
ChainCandidates(hs, hit, already) ==
    {t \in HorrorIds : /\ hs[t].live
                       /\ t # hit /\ t \notin already
                       /\ WithinChainRadius(Dist(hs[t].gpos, hs[hit].gpos))}

\* closest_new_target: the first of the nearest candidates, 0 for None
ClosestNewTarget(hs, hit, already) ==
    LET cand == ChainCandidates(hs, hit, already)
        d(t) == Dist(hs[t].gpos, hs[hit].gpos)
    IN IF cand = {} THEN 0
       ELSE CHOOSE t \in cand : \A u \in cand : d(t) < d(u) \/ (d(t) = d(u) /\ t <= u)

SkillPierceAfterHit(piercing_left) == piercing_left - 1

BouncesAfterBounce_kept(bounces_left) == bounces_left

BouncesAfterBounce(bounces_left) == bounces_left - 1

\* the seed of the already-hit list of a successor aimed at `target`
SuccessorAlreadyHit(hit, target) == <<target>>

Overlapped(pr, hs) ==
    {k \in HorrorIds : hs[k].live /\ Collides(Dist(pr.gpos, hs[k].gpos), pr.size, hs[k].size)}

\* the inner loop: projectile p against the horrors k, k+1, ...
RECURSIVE SkillHitLoop(_, _, _)
SkillHitLoop(p, k, st) ==
    IF k > NumHorrors THEN st
    ELSE LET pr == st.sprojs[p]
             ho == st.horrors[k]
         IN IF ~ho.live \/ k \in Range(pr.already_hit_by_this_projectile)
            THEN SkillHitLoop(p, k + 1, st)
            ELSE IF Collides(Dist(pr.gpos, ho.gpos), pr.size, ho.size)
            THEN LET st1 == [st EXCEPT
                               !.horrors[k].health = @ - pr.dmg,
                               !.horrors[k].nhits = @ + 1,
                               !.damaged = IF pr.chain \in DOMAIN st.damaged
                                           THEN [@ EXCEPT ![pr.chain][k] = @ + 1] ELSE @,
                               !.sprojs[p].already_hit_by_this_projectile = Append(@, k),
                               !.sprojs[p].dmglog = Append(@, k)]
                     despawn == Cmd("despawn_sproj", "skill_projectile_collision_system",
                                    p, 0, NoBullet)
                 IN IF pr.piercing_left > 0
                    THEN SkillHitLoop(p, k + 1,
                             [st1 EXCEPT !.sprojs[p].piercing_left = SkillPierceAfterHit(@)])
                    ELSE IF pr.bounces_left > 0
                    THEN LET left == BouncesAfterBounce(pr.bounces_left)
                             target == ClosestNewTarget(st1.horrors, k,
                                           Range(st1.sprojs[p].already_hit_by_this_projectile))
                             def == SkillLibrary(pr.skill_id)
                             equipped == survivor.skill.definition_id = pr.skill_id
                             successor ==
                                 SpawnSkillProjectile(ho.gpos,
                                     Sign(st1.horrors[IF target = 0 THEN k ELSE target].gpos - ho.gpos),
                                     def, pr.skill_id, pr.dmg, def.piercing, left,
                                     SuccessorAlreadyHit(k, target), pr.chain, pr.gen + 1)
                             st2 == [st1 EXCEPT !.sprojs[p].bounces_left = left,
                                                !.sprojs[p].fate = "bounced"]
                         IN IF target # 0 /\ equipped
                            THEN [st2 EXCEPT
                                    !.cmds = @ \o <<Cmd("spawn_sproj",
                                                        "skill_projectile_collision_system",
                                                        p, 0, successor), despawn>>,
                                    !.successors[pr.chain] = @ + 1]
                            ELSE [st2 EXCEPT !.cmds = Append(@, despawn)]
                    ELSE [st1 EXCEPT !.cmds = Append(@, despawn),
                                     !.sprojs[p].fate = "consumed"]
            ELSE SkillHitLoop(p, k + 1, st)

\* the outer loop: every skill projectile, the runaway guard first
RECURSIVE SkillLoop(_, _)
SkillLoop(p, st) ==
    IF p > MaxSkillProjectiles THEN st
    ELSE LET pr == st.sprojs[p]
         IN IF ~pr.live THEN SkillLoop(p + 1, st)
            ELSE IF RunawayGuard(pr)
            THEN SkillLoop(p + 1,
                     [st EXCEPT !.cmds = Append(@, Cmd("despawn_sproj",
                                             "skill_projectile_collision_system", p, 0, NoBullet)),
                                !.sprojs[p].fate = "guard"])
            ELSE SkillLoop(p + 1,
                     SkillHitLoop(p, 1,
                         [st EXCEPT !.sprojs[p].seen = @ \cup Overlapped(pr, st.horrors),
                                    !.sprojs[p].passed =
                                        IF Len(pr.already_hit_by_this_projectile) > @
                                        THEN Len(pr.already_hit_by_this_projectile) ELSE @]))

skill_projectile_collision_system ==
    /\ Ready("skill_projectile_collision_system")
    /\ LET st == SkillLoop(1, [sprojs |-> sprojs, horrors |-> horrors, cmds |-> cmds,
                               successors |-> chain.successors, damaged |-> chain.damaged])
       IN /\ sprojs' = st.sprojs
          /\ horrors' = st.horrors
          /\ cmds' = st.cmds
          /\ chain' = [chain EXCEPT !.successors = st.successors, !.damaged = st.damaged]
    /\ ran' = ran \cup {"skill_projectile_collision_system"}
    /\ UNCHANGED <<effectVars, sessionVars, systems, stage, dt, baseVars, survivor>>

\* movement of skill projectiles: position += velocity * dt
skill_projectile_movement ==
    /\ Ready("skill_projectile_movement")
    /\ sprojs' = [p \in SkillProjectileIds |-> MoveBullet(sprojs[p])]
    /\ ran' = ran \cup {"skill_projectile_movement"}
    /\ UNCHANGED <<effectVars, sessionVars, systems, stage, dt, cmds, baseVars, survivor, horrors, chain>>

(* ------------------- systems: skill effects in an area ------------------ *)
\* horror_pos.distance_squared(effect_pos) < radius_sq
InRadius(f, ho) == Dist(ho.gpos, f.gpos) * Dist(ho.gpos, f.gpos) < f.radius * f.radius

DespawnEffect(f, by) == Cmd("despawn_effect", by, f.id, 0, NoBullet)

Expired_never(f) == FALSE

Expired(f) == f.lifetime_timer.finished

\* the damage pass of the area effect number i over the horrors h, h+1, ...
RECURSIVE AoeHitLoop(_, _, _)
AoeHitLoop(i, h, st) ==
    IF h > NumHorrors THEN st
    ELSE LET f == st.effects[i]
             ho == st.horrors[h]
         IN IF ~ho.live \/ h \in Range(f.already_hit) \/ ~InRadius(f, ho)
            THEN AoeHitLoop(i, h + 1, st)
            ELSE AoeHitLoop(i, h + 1,
                     [st EXCEPT !.horrors[h].health = @ - f.damage,
                                !.effects[i].already_hit = Append(@, h),
                                !.effects[i].hits[h] = @ + 1,
                                !.effects[i].late = @ \/ f.lifetime_timer.finished])

\* one ActiveSkillAoEEffect: lifetime first, then the tick timer
AoeEffectStep(i, st) ==
    LET f1 == [st.effects[i] EXCEPT !.lifetime_timer = TimerTick(@, dt)]
        f2 == [f1 EXCEPT !.tick_timer = TimerTick(@, dt)]
    IN IF Expired(f1)
       THEN [st EXCEPT !.effects[i] = f1,
                       !.cmds = Append(@, DespawnEffect(f1, "active_skill_aoe_system"))]
       ELSE IF TimerJustFinished(f2.tick_timer)
       THEN AoeHitLoop(i, 1,
                [st EXCEPT !.effects[i] = [f2 EXCEPT !.already_hit = <<>>,
                                                     !.elapses = @ + f2.tick_timer.times]])
       ELSE [st EXCEPT !.effects[i] = f2]

RECURSIVE AoeLoop(_, _)
AoeLoop(i, st) ==
    IF i > Len(st.effects) THEN st
    ELSE AoeLoop(i + 1, IF st.effects[i].kind = "aoe" THEN AoeEffectStep(i, st) ELSE st)

active_skill_aoe_system ==
    /\ Ready("active_skill_aoe_system")
    /\ LET st == AoeLoop(1, [effects |-> effects, horrors |-> horrors, cmds |-> cmds])
       IN /\ effects' = st.effects
          /\ horrors' = st.horrors
          /\ cmds' = st.cmds
    /\ ran' = ran \cup {"active_skill_aoe_system"}
    /\ UNCHANGED <<systems, stage, dt, baseVars, sessionVars, survivor, sprojs, chain,
                   orbiters>>

\* the Frozen component a nova inserts
FrozenBy_unit(f) ==
    [some |-> TRUE, timer |-> Timer(f.slow_duration_secs, "Once"), speed_multiplier |-> 100]

FrozenBy(f) ==
    [some |-> TRUE, timer |-> Timer(f.slow_duration_secs, "Once"),
     speed_multiplier |-> f.slow_multiplier]

\* the horrors of the nova's query: With<Horror>, Without<Frozen>
InNovaQuery(ho) == ho.live /\ ~ho.frozen.some

\* the damage pass of the nova number i over the horrors h, h+1, ...
RECURSIVE NovaHitLoop(_, _, _)
NovaHitLoop(i, h, st) ==
    IF h > NumHorrors THEN st
    ELSE LET f == st.effects[i]
             ho == st.horrors[h]
         IN IF ~InNovaQuery(ho)
            THEN NovaHitLoop(i, h + 1,
                     [st EXCEPT !.effects[i].passed_over =
                                    IF ho.live /\ InRadius(f, ho) THEN @ \cup {h} ELSE @])
            ELSE IF h \in Range(f.already_hit) \/ ~InRadius(f, ho)
            THEN NovaHitLoop(i, h + 1, st)
            ELSE NovaHitLoop(i, h + 1,
                     [st EXCEPT !.horrors[h].health = @ - f.damage,
                                !.cmds = Append(@, Cmd("insert_frozen",
                                             "freezing_nova_effect_damage_system", h, 0,
                                             FrozenBy(f))),
                                !.effects[i].already_hit = Append(@, h),
                                !.effects[i].hits[h] = @ + 1])

\* lifetime_timer.fraction() < 0.5 and the nova's own id is not yet in its
\* already_hit_entities (closed): the only damage pass of the nova
DamagePassOpen(f) == 2 * f.lifetime_timer.elapsed < f.lifetime_timer.dur /\ ~f.closed

\* one FreezingNovaEffect
NovaStep(i, st) ==
    LET f1 == [st.effects[i] EXCEPT !.lifetime_timer = TimerTick(@, dt), !.passed_over = {}]
        st0 == [st EXCEPT !.effects[i] = f1]
        st1 == IF DamagePassOpen(f1)
               THEN [NovaHitLoop(i, 1, st0) EXCEPT !.effects[i].closed = TRUE]
               ELSE st0
    IN IF f1.lifetime_timer.finished
       THEN [st1 EXCEPT !.cmds = Append(@, DespawnEffect(f1, "freezing_nova_effect_damage_system"))]
       ELSE st1

RECURSIVE NovaLoop(_, _)
NovaLoop(i, st) ==
    IF i > Len(st.effects) THEN st
    ELSE NovaLoop(i + 1, IF st.effects[i].kind = "nova" THEN NovaStep(i, st) ELSE st)

freezing_nova_effect_damage_system ==
    /\ Ready("freezing_nova_effect_damage_system")
    /\ LET st == NovaLoop(1, [effects |-> effects, horrors |-> horrors, cmds |-> cmds])
       IN /\ effects' = st.effects
          /\ horrors' = st.horrors
          /\ cmds' = st.cmds
    /\ ran' = ran \cup {"freezing_nova_effect_damage_system"}
    /\ UNCHANGED <<systems, stage, dt, baseVars, sessionVars, survivor, sprojs, chain,
                   orbiters>>

\* the Frozen status runs out: its timer is ticked and the component removed
\* when it has finished
ThawStep(ho) ==
    IF ho.live /\ ho.frozen.some
    THEN LET t == TimerTick(ho.frozen.timer, dt)
         IN [ho EXCEPT !.frozen = IF t.finished THEN NoFrozen ELSE [@ EXCEPT !.timer = t]]
    ELSE ho

frozen_status_system ==
    /\ Ready("frozen_status_system")
    /\ horrors' = [h \in HorrorIds |-> ThawStep(horrors[h])]
    /\ ran' = ran \cup {"frozen_status_system"}
    /\ UNCHANGED <<systems, stage, dt, cmds, baseVars, sessionVars, survivor, sprojs, chain,
                   effectVars>>

(* ------------------------------ the frame ------------------------------ *)
\* a frame starts: Time advances by the frame time, the Update schedule starts
\* a frame of InGame time is over
AgedByFrame(h) ==
    IF "player_invincibility_system" \in systems /\ appState = "InGame"
    THEN [h EXCEPT !.age = IF @ + dt >= INVINCIBILITY_SECONDS THEN INVINCIBILITY_SECONDS
                           ELSE @ + dt]
    ELSE h

BeginFrame ==
    /\ stage = "idle"
    /\ appState = "InGame" /\ nextState = "none"
    /\ stage' = "update"
    /\ ran' = {}
    /\ hist' = [hist EXCEPT !.hits_this_tick = 0,
                            !.since_hit = IF @ < 0 THEN @ ELSE @ + dt]
    /\ UNCHANGED <<effectVars, sessionVars, systems, dt, cmds, appState, nextState, player, weapon, aura, enemies,
                   bullets, eprojs, orbs, score, skillVars>>

\* a sync point: every queued command is applied
ApplyDeferred ==
    /\ stage = "update"
    /\ cmds # <<>>
    /\ bullets' = Flushed.bullets
    /\ enemies' = Flushed.enemies
    /\ eprojs' = Flushed.eprojs
    /\ orbs' = Flushed.orbs
    /\ sprojs' = Flushed.sprojs
    /\ orbiters' = Flushed.orbiters
    /\ effects' = Flushed.effects
    /\ horrors' = Flushed.horrors
    /\ cmds' = <<>>
    /\ UNCHANGED <<sessionVars, systems, stage, dt, ran, appState, nextState, player, weapon, aura,
                   score, hist, survivor, chain>>

\* PostUpdate: GlobalTransform := Transform
PropagateBullet(b) == IF b.live THEN [b EXCEPT !.gpos = b.pos] ELSE b

PropagateEnemy(en) == IF en.live THEN [en EXCEPT !.gpos = en.pos] ELSE en

\* an orbiter is a child of the player, which stands at the world origin in
\* the orbiter runs: its global bearing is its local one
PropagateOrbiter(o) == [o EXCEPT !.gangle = o.angle]

PropagateEffect(f) == [f EXCEPT !.gpos = f.pos]

\* end of the Update schedule (final sync point) followed by PostUpdate
EndFrame ==
    /\ stage = "update"
    /\ ran = systems
    /\ bullets' = [b \in BulletIds |-> PropagateBullet(Flushed.bullets[b])]
    /\ enemies' = [e \in EnemyIds |-> PropagateEnemy(Flushed.enemies[e])]
    /\ eprojs' = [k \in EnemyProjectileIds |-> PropagateBullet(Flushed.eprojs[k])]
    /\ player' = [player EXCEPT !.gpos = player.pos]
    /\ orbs' = Flushed.orbs
    /\ sprojs' = [p \in SkillProjectileIds |-> PropagateBullet(Flushed.sprojs[p])]
    /\ orbiters' = [k \in 1..Len(Flushed.orbiters) |-> PropagateOrbiter(Flushed.orbiters[k])]
    /\ effects' = [k \in 1..Len(Flushed.effects) |-> PropagateEffect(Flushed.effects[k])]
    /\ horrors' = Flushed.horrors
    /\ cmds' = <<>>
    /\ stage' = "idle"
    /\ hist' = AgedByFrame(hist)
    /\ UNCHANGED <<sessionVars, systems, dt, ran, appState, nextState, weapon, aura, score,
                   survivor, chain>>

(* ------------------------------ entities ------------------------------- *)
NoSpitterBehavior ==
    [some |-> FALSE, shooting_range |-> 0, fire_timer |-> Timer(SPITTER_FIRE_RATE, "Repeating"),
     projectile_speed |-> 0, projectile_damage |-> 0]

SpitterBehavior ==
    [some |-> TRUE, shooting_range |-> SPITTER_RANGE,
     fire_timer |-> Timer(SPITTER_FIRE_RATE, "Repeating"),
     projectile_speed |-> SPITTER_PROJECTILE_SPEED,
     projectile_damage |-> SPITTER_PROJECTILE_DAMAGE]

Grunt(position) ==
    [live |-> TRUE, health |-> GRUNT_HEALTH, pos |-> position, gpos |-> position,
     size |-> ENEMY_GRUNT_SIZE, speed |-> GRUNT_SPEED,
     damage_on_collision |-> GRUNT_DAMAGE_ON_COLLISION, spitter |-> NoSpitterBehavior,
     h0 |-> GRUNT_HEALTH, nhits |-> 0, aura_hits |-> 0, death_hit |-> 0, death_pos |-> 0]

Spitter(position) ==
    [live |-> TRUE, health |-> SPITTER_HEALTH, pos |-> position, gpos |-> position,
     size |-> ENEMY_SPITTER_SIZE, speed |-> SPITTER_SPEED,
     damage_on_collision |-> SPITTER_DAMAGE_ON_COLLISION, spitter |-> SpitterBehavior,
     h0 |-> SPITTER_HEALTH, nhits |-> 0, aura_hits |-> 0, death_hit |-> 0, death_pos |-> 0]

AoeAuraWeapon(active) ==
    [is_active |-> active, damage_tick_timer |-> Timer(AURA_TICK_SECONDS, "Repeating"),
     current_radius |-> AURA_RADIUS, base_damage_per_tick |-> AURA_DAMAGE_PER_TICK]

\* spawn_player: the invincibility_timer of the new Player
SpawnInvincibility_over == TimerTick(Timer(INVINCIBILITY_SECONDS, "Once"), INVINCIBILITY_SECONDS)

SpawnInvincibility == Timer(INVINCIBILITY_SECONDS, "Once")

\* spawn_player, standing at `position`
SpawnPlayer(position) ==
    [live |-> TRUE, speed |-> PLAYER_SPEED, pos |-> position, gpos |-> position, health |-> INITIAL_PLAYER_MAX_HEALTH,
     max_health |-> INITIAL_PLAYER_MAX_HEALTH, aim_direction |-> 1,
     invincibility_timer |-> SpawnInvincibility,
     bullet_damage_bonus |-> 0, projectile_piercing |-> 0, additional_projectiles |-> 0,
     health_regen_rate |-> 0, unclamped |-> 0, starved |-> 0]

\* age: the InGame time of the completed frames since the player was spawned, in
\* runs with player_invincibility_system and up to INVINCIBILITY_SECONDS
NoHits ==
    [hits |-> 0, hits_this_tick |-> 0, since_hit |-> -1, last_gap |-> -1,
     hit_dt |-> 0, prev_hit_dt |-> 0, age |-> 0]

\* the caster with one projectile skill and the bounces its glyphs add
Survivor(skill_id, bounces) ==
    [pos |-> 0, aim_direction |-> 1, eager |-> FALSE,
     skill |-> [definition_id |-> skill_id, current_cooldown |-> 0,
                flat_damage_bonus |-> 0, cooldown_multiplier |-> 100,
                glyph_bounces |-> bounces,
                set_to |-> 0, since |-> 0, gap |-> -1, prev_set |-> 0]]

Horror(position) ==
    [live |-> TRUE, health |-> 100, pos |-> position, gpos |-> position, size |-> 40,
     nhits |-> 0, frozen |-> NoFrozen]

NoCasts ==
    [casts |-> 0, budget |-> MaxCasts, successors |-> [c \in 1..MaxCasts |-> 0],
     damaged |-> [c \in 1..MaxCasts |-> [h \in HorrorIds |-> 0]]]

\* spawn_player: progression and upgrade fields, OrbitingProjectileWeapon::default
SpawnStats ==
    [level |-> 1, current_level_xp |-> 0, experience |-> 0, xp_gain_multiplier |-> 100,
     orbiting_active |-> FALSE, num_orbiters |-> 0, orbiter_damage |-> ORBITER_DAMAGE_PER_HIT,
     orbiting_changed |-> TRUE, count_before |-> -1]

\* GameState::default and the resources inserted by GamePlugin::build
\* crowd: the further Enemy entities of the world, which stand away from the player
\* and which a run does not follow one by one
NewGame ==
    [wave_number |-> 0,
     game_timer |-> Timer(0, "Once"),
     difficulty_timer |-> Timer(0, "Once"),
     spawn_timer |-> Timer(INITIAL_SPAWN_INTERVAL_SECONDS, "Repeating"),
     max_enemies |-> INITIAL_MAX_ENEMIES,
     crowd |-> 0]

\* no UpgradeChosenEvent sent; `unread` are the events that apply_chosen_upgrade
\* and its run condition have not read yet
NoEvents == [unread |-> <<>>, sent |-> 0]

NoSession ==
    [sessions |-> 0, from |-> "none", max_awards |-> 0, awards |-> 0,
     max_frames |-> 0, frames |-> 0,
     last_level |-> 0, last_needed |-> 0,
     levels_by_call |-> 0, requests_by_call |-> 0, due |-> FALSE, credited |-> 0,
     surplus |-> 0,
     visit_sent |-> 0, visit_applied |-> 0, visits |-> 0, both_pressed |-> FALSE,
     dead_pending |-> FALSE]

\* no orbiter and no skill effect in the world
EffectsUnused ==
    /\ orbiters = <<>>
    /\ effects = <<>>

SessionUnused ==
    /\ stats = SpawnStats
    /\ game = NewGame
    /\ events = NoEvents
    /\ sess = NoSession

(* --------------------- experience and levelling ------------------------ *)
XP_FOR_LEVEL == <<100, 150, 250, 400, 600, 850, 1100, 1400, 1800, 2500>>

\* Player::experience_to_next_level (u32; a level of the runs is far from overflowing it)
ExperienceToNextLevel_clamped(level) ==
    IF level = 0 THEN 0
    ELSE IF level - 1 < Len(XP_FOR_LEVEL) THEN XP_FOR_LEVEL[level]
    ELSE XP_FOR_LEVEL[Len(XP_FOR_LEVEL)]

ExperienceToNextLevel(level) ==
    IF level = 0 THEN 0
    ELSE IF level - 1 < Len(XP_FOR_LEVEL) THEN XP_FOR_LEVEL[level]
    ELSE XP_FOR_LEVEL[Len(XP_FOR_LEVEL)] + (level - Len(XP_FOR_LEVEL)) * XP_LEVEL_INCREMENT

\* (amount as f32 * xp_gain_multiplier).round() as u32, the multiplier in percent
RoundedGain(amount, multiplier) == (amount * multiplier + 50) \div 100

\* the test that follows next_state_value.set(AppState::LevelUp) in the loop
BreakAfterLevelUp_never(next) == FALSE

BreakAfterLevelUp(next) == next = "LevelUp"

\* the while loop of Player::add_experience
RECURSIVE LevelUpLoop(_, _, _)
LevelUpLoop(st, next, sets) ==
    IF st.current_level_xp >= ExperienceToNextLevel(st.level) /\ st.level > 0
    THEN LET needed == ExperienceToNextLevel(st.level)
             st1 == [st EXCEPT !.current_level_xp = @ - needed, !.level = @ + 1]
         IN IF BreakAfterLevelUp("LevelUp")
            THEN [stats |-> st1, next |-> "LevelUp", sets |-> sets + 1, needed |-> needed]
            ELSE LevelUpLoop(st1, "LevelUp", sets + 1)
    ELSE [stats |-> st, next |-> next, sets |-> sets, needed |-> 0]

\* Player::add_experience
AddExperience_untallied(st, amount, next) ==
    LET actual_xp_gained == RoundedGain(amount, st.xp_gain_multiplier)
    IN LevelUpLoop([st EXCEPT !.current_level_xp = @ + actual_xp_gained], next, 0)

AddExperience(st, amount, next) ==
    LET actual_xp_gained == RoundedGain(amount, st.xp_gain_multiplier)
    IN LevelUpLoop([st EXCEPT !.current_level_xp = @ + actual_xp_gained,
                              !.experience = @ + actual_xp_gained], next, 0)

\* the XP an award credits
XpAwards == {100, 3000}

\* the experience system: the player picks up XP and add_experience credits it
experience_system ==
    /\ Ready("experience_system")
    /\ \/ /\ sess.awards < sess.max_awards
          /\ player.live
          /\ \E amount \in XpAwards :
               LET r == AddExperience(stats, amount, nextState)
               IN /\ stats' = r.stats
                  /\ nextState' = r.next
                  /\ sess' = [sess EXCEPT
                                !.awards = @ + 1,
                                !.last_level = stats.level,
                                !.last_needed = ExperienceToNextLevel(stats.level),
                                !.levels_by_call = r.stats.level - stats.level,
                                !.requests_by_call = r.sets,
                                !.due = stats.current_level_xp
                                          + RoundedGain(amount, stats.xp_gain_multiplier)
                                        >= ExperienceToNextLevel(stats.level),
                                !.credited = stats.current_level_xp
                                          + RoundedGain(amount, stats.xp_gain_multiplier),
                                !.surplus = r.stats.current_level_xp]
       \/ UNCHANGED <<stats, nextState, sess>>
    /\ ran' = ran \cup {"experience_system"}
    /\ UNCHANGED <<effectVars, systems, stage, dt, cmds, appState, player, weapon, aura, enemies,
                   bullets, eprojs, orbs, score, hist, skillVars, game, events>>

(* ------------------------- the session and its phases ------------------ *)
\* reset_for_new_game_session: GameState, EnemySpawnTimer, MaxEnemies
ResetGameState_keepsWave(g) ==
    [wave_number |-> g.wave_number,
     game_timer |-> Timer(GAME_TIMER_SECONDS, "Once"),
     difficulty_timer |-> Timer(DIFFICULTY_INCREASE_INTERVAL_SECONDS, "Repeating"),
     spawn_timer |-> TimerReset([g.spawn_timer EXCEPT !.dur = INITIAL_SPAWN_INTERVAL_SECONDS]),
     max_enemies |-> INITIAL_MAX_ENEMIES,
     crowd |-> g.crowd]

ResetGameState(g) ==
    [wave_number |-> 1,
     game_timer |-> Timer(GAME_TIMER_SECONDS, "Once"),
     difficulty_timer |-> Timer(DIFFICULTY_INCREASE_INTERVAL_SECONDS, "Repeating"),
     spawn_timer |-> TimerReset([g.spawn_timer EXCEPT !.dur = INITIAL_SPAWN_INTERVAL_SECONDS]),
     max_enemies |-> INITIAL_MAX_ENEMIES,
     crowd |-> g.crowd]

\* reset_for_new_game_session: the fields of the player entity, when there is one
ResetPlayer(pl) ==
    IF pl.live
    THEN [pl EXCEPT !.bullet_damage_bonus = 0, !.projectile_piercing = 0,
                    !.additional_projectiles = 0,
                    !.max_health = INITIAL_PLAYER_MAX_HEALTH,
                    !.health_regen_rate = 0,
                    !.health = INITIAL_PLAYER_MAX_HEALTH]
    ELSE pl

ResetStats(pl, st) ==
    IF pl.live
    THEN [st EXCEPT !.experience = 0, !.current_level_xp = 0, !.level = 1,
                    !.xp_gain_multiplier = 100, !.orbiting_active = FALSE,
                    !.num_orbiters = 0, !.orbiter_damage = ORBITER_DAMAGE_PER_HIT,
                    !.orbiting_changed = TRUE]
    ELSE st

\* the input systems despawn every player entity, reset the session and request
\* the next phase
StartSession(by, to) ==
    /\ cmds' = IF player.live
               THEN Append(cmds, Cmd("despawn_player", by, 0, 0, NoBullet))
               ELSE cmds
    /\ score' = 0
    /\ game' = ResetGameState(game)
    /\ player' = ResetPlayer(player)
    /\ stats' = ResetStats(player, stats)
    /\ weapon' = IF player.live THEN Timer(FIRE_RATE_SECONDS, "Repeating") ELSE weapon
    /\ aura' = IF player.live THEN AoeAuraWeapon(FALSE) ELSE aura
    /\ nextState' = to

\* the phase that the restart input of the GameOver screen requests
RestartTarget_session == "InGame"

RestartTarget == "MainMenu"

main_menu_input_system ==
    /\ Ready("main_menu_input_system")
    /\ \/ /\ sess.sessions < MaxSessions
          /\ StartSession("main_menu_input_system", "InGame")
          /\ sess' = [sess EXCEPT !.sessions = @ + 1]
       \/ UNCHANGED <<cmds, score, game, player, stats, weapon, aura, nextState, sess>>
    /\ ran' = ran \cup {"main_menu_input_system"}
    /\ UNCHANGED <<effectVars, systems, stage, dt, appState, enemies, bullets, eprojs, orbs, hist,
                   skillVars, events>>

game_over_input_system ==
    /\ Ready("game_over_input_system")
    /\ \/ StartSession("game_over_input_system", RestartTarget)
       \/ UNCHANGED <<cmds, score, game, player, stats, weapon, aura, nextState>>
    /\ ran' = ran \cup {"game_over_input_system"}
    /\ UNCHANGED <<effectVars, systems, stage, dt, appState, enemies, bullets, eprojs, orbs, hist,
                   skillVars, events, sess>>

\* update_game_timer
update_game_timer ==
    /\ Ready("update_game_timer")
    /\ game' = IF ~game.game_timer.paused
               THEN [game EXCEPT !.game_timer = TimerTick(@, dt)]
               ELSE game
    /\ ran' = ran \cup {"update_game_timer"}
    /\ UNCHANGED <<effectVars, systems, stage, dt, cmds, baseVars, skillVars, stats, events, sess>>

\* difficulty_scaling_system
MaxEnemiesForWave_uncapped(wave_number) ==
    INITIAL_MAX_ENEMIES + (wave_number - 1) * MAX_ENEMIES_INCREMENT

MaxEnemiesForWave(wave_number) ==
    IF INITIAL_MAX_ENEMIES + (wave_number - 1) * MAX_ENEMIES_INCREMENT < MAX_ENEMIES_CAP
    THEN INITIAL_MAX_ENEMIES + (wave_number - 1) * MAX_ENEMIES_INCREMENT
    ELSE MAX_ENEMIES_CAP

\* (current_duration * 0.9).max(0.3), durations in units of 0.1 ms
ShorterSpawnInterval(current_duration) ==
    IF (current_duration * 9) \div 10 > MIN_SPAWN_INTERVAL_SECONDS
    THEN (current_duration * 9) \div 10
    ELSE MIN_SPAWN_INTERVAL_SECONDS

WavesPerElapse_all(timer) == timer.times

WavesPerElapse(timer) == 1

ScaleDifficulty(g) ==
    LET t == TimerTick(g.difficulty_timer, dt)
    IN IF TimerJustFinished(t)
       THEN [g EXCEPT !.difficulty_timer = t,
                      !.wave_number = @ + WavesPerElapse(t),
                      !.max_enemies = MaxEnemiesForWave(g.wave_number + WavesPerElapse(t)),
                      !.spawn_timer.dur = ShorterSpawnInterval(@)]
       ELSE [g EXCEPT !.difficulty_timer = t]

difficulty_scaling_system ==
    /\ Ready("difficulty_scaling_system")
    /\ game' = IF game.difficulty_timer.paused THEN game ELSE ScaleDifficulty(game)
    /\ ran' = ran \cup {"difficulty_scaling_system"}
    /\ UNCHANGED <<effectVars, systems, stage, dt, cmds, baseVars, skillVars, stats, events, sess>>

\* global_debug_key_listener: F12 toggles the debug menu
global_debug_key_listener ==
    /\ Ready("global_debug_key_listener")
    /\ \E f12 \in BOOLEAN :
         nextState' = IF f12 /\ appState = "InGame" THEN "DebugUpgradeMenu"
                      ELSE IF f12 /\ appState = "DebugUpgradeMenu" THEN "InGame"
                      ELSE nextState
    /\ ran' = ran \cup {"global_debug_key_listener"}
    /\ UNCHANGED <<effectVars, sessionVars, systems, stage, dt, cmds, appState, player, weapon, aura,
                   enemies, bullets, eprojs, orbs, score, hist, skillVars>>

\* the upgrade cards of the pool that the model offers
Cards ==
    IF "player_health_regeneration_system" \in systems
    THEN {"MaxHealth", "HealthRegeneration"}
    ELSE {"MaxHealth", "UnlockAoeAuraWeapon"}

SendUpgradeChosen(ev, card, from) ==
    [ev EXCEPT !.unread = Append(@, [card |-> card, from |-> from]), !.sent = @ + 1]

\* what a tick's choice input may be: nothing, or a card while the run's budget lasts
Choices == IF events.sent < MaxUpgrades THEN Cards \cup {"none"} ELSE {"none"}

\* a pressed button returns before the digit keys are looked at
DigitAfterButton_both(button, digit) == digit

DigitAfterButton(button, digit) == IF button # "none" THEN "none" ELSE digit

\* handle_upgrade_choice_interaction
handle_upgrade_choice_interaction ==
    /\ Ready("handle_upgrade_choice_interaction")
    /\ \E button \in Choices, digit \in Choices :
         LET key == DigitAfterButton(button, digit)
             e1 == IF button # "none" THEN SendUpgradeChosen(events, button, "LevelUp")
                   ELSE events
             e2 == IF key # "none" THEN SendUpgradeChosen(e1, key, "LevelUp") ELSE e1
         IN /\ events' = e2
            /\ nextState' = IF button # "none" \/ key # "none" THEN "InGame" ELSE nextState
            /\ sess' = [sess EXCEPT !.visit_sent = @ + Len(e2.unread) - Len(events.unread),
                                    !.both_pressed = @ \/ (button # "none" /\ digit # "none")]
    /\ ran' = ran \cup {"handle_upgrade_choice_interaction"}
    /\ UNCHANGED <<effectVars, systems, stage, dt, cmds, appState, player, weapon, aura, enemies,
                   bullets, eprojs, orbs, score, hist, skillVars, stats, game>>

\* debug_menu_button_interaction_system: the menu stays open
debug_menu_button_interaction_system ==
    /\ Ready("debug_menu_button_interaction_system")
    /\ \E button \in Choices :
         events' = IF button # "none" THEN SendUpgradeChosen(events, button, "Debug")
                   ELSE events
    /\ ran' = ran \cup {"debug_menu_button_interaction_system"}
    /\ UNCHANGED <<effectVars, systems, stage, dt, cmds, baseVars, skillVars, stats, game, sess>>

\* one arm of the match of apply_chosen_upgrade, on w = [player, stats, aura]
ApplyUpgrade(w, card) ==
    IF card = "MaxHealth"
    THEN LET m == w.player.max_health + MAX_HEALTH_UPGRADE
             h == w.player.health + MAX_HEALTH_UPGRADE
         IN [w EXCEPT !.player.max_health = m,
                      !.player.health = IF h < m THEN h ELSE m]
    ELSE IF card = "HealthRegeneration"
    THEN [w EXCEPT !.player.health_regen_rate = @ + HEALTH_REGEN_UPGRADE]
    ELSE IF ~w.aura.is_active
    THEN [w EXCEPT !.aura.is_active = TRUE]
    ELSE [w EXCEPT !.aura.base_damage_per_tick = @ + 1,
                   !.aura.current_radius = (@ * 11) \div 10]

RECURSIVE ApplyUpgrades(_, _)
ApplyUpgrades(w, evs) ==
    IF evs = <<>> THEN w
    ELSE ApplyUpgrades(IF w.player.live THEN ApplyUpgrade(w, Head(evs).card) ELSE w,
                       Tail(evs))

FromLevelUp(evs) == Len(SelectSeq(evs, LAMBDA e : e.from = "LevelUp"))

\* apply_chosen_upgrade, which runs when on_event::<UpgradeChosenEvent>() holds
apply_chosen_upgrade ==
    /\ Ready("apply_chosen_upgrade")
    /\ LET w == ApplyUpgrades([player |-> player, stats |-> stats, aura |-> aura],
                              events.unread)
       IN /\ player' = w.player
          /\ stats' = w.stats
          /\ aura' = w.aura
    /\ sess' = [sess EXCEPT !.visit_applied =
                   @ + (IF player.live THEN FromLevelUp(events.unread) ELSE 0)]
    /\ events' = [events EXCEPT !.unread = <<>>]
    /\ ran' = ran \cup {"apply_chosen_upgrade"}
    /\ UNCHANGED <<effectVars, systems, stage, dt, cmds, appState, nextState, weapon, enemies,
                   bullets, eprojs, orbs, score, hist, skillVars, game>>

(* ------------------------- the spawning of enemies --------------------- *)
\* time.delta() in the unit of the spawn interval
TimeDelta(d) == d * 500

\* the enemy types that a wave draws from (Tanks are left out)
SpawnTypes(wave_number) == IF wave_number <= 2 THEN {"Grunt"} ELSE {"Grunt", "Spitter"}

\* a spawn position on either side of the player, 0.7 to 1.0 screen widths away
SpawnOffsets == {1792, -2560}

\* EnemyStats::get_for_type with wave_multiplier = 1 + (wave_number - 1) * 0.1;
\* the GlobalTransform of the new entity is the identity until PostUpdate
SpawnedEnemy(type, position, wave_number) ==
    IF type = "Grunt"
    THEN [Grunt(position) EXCEPT !.gpos = 0,
                                 !.health = (GRUNT_HEALTH * (9 + wave_number)) \div 10,
                                 !.h0 = (GRUNT_HEALTH * (9 + wave_number)) \div 10,
                                 !.speed = @ + (2 * (wave_number - 1)) \div 10]
    ELSE [Spitter(position) EXCEPT !.gpos = 0,
                                   !.health = (SPITTER_HEALTH * (9 + wave_number)) \div 10,
                                   !.h0 = (SPITTER_HEALTH * (9 + wave_number)) \div 10,
                                   !.speed = @ + (15 * (wave_number - 1)) \div 100]

PendingEnemySpawns == Cardinality({i \in 1..Len(cmds) : cmds[i].op = "spawn_enemy"})

\* enemy_spawn_system
\* enemy_query.iter().count()
EnemyCount == Cardinality({e \in EnemyIds : enemies[e].live}) + game.crowd

enemy_spawn_system ==
    /\ Ready("enemy_spawn_system")
    /\ LET t == TimerTick(game.spawn_timer, TimeDelta(dt))
           count == EnemyCount
           spawn == TimerJustFinished(t) /\ count < game.max_enemies /\ player.live
       IN /\ game' = [game EXCEPT !.spawn_timer = t]
          /\ spawn => Cardinality({e \in EnemyIds : enemies[e].live}) + PendingEnemySpawns
                         < NumEnemies
          /\ IF spawn
             THEN \E type \in SpawnTypes(game.wave_number), offset \in SpawnOffsets :
                    cmds' = Append(cmds, Cmd("spawn_enemy", "enemy_spawn_system", 0, 0,
                                             SpawnedEnemy(type, player.pos + offset,
                                                          game.wave_number)))
             ELSE cmds' = cmds
    /\ ran' = ran \cup {"enemy_spawn_system"}
    /\ UNCHANGED <<effectVars, systems, stage, dt, baseVars, skillVars, stats, events, sess>>

(* ------------------- the frame of a run with phases -------------------- *)
\* the run condition of system s in phase st
RunsIn(s, st) ==
    CASE s = "main_menu_input_system" -> st = "MainMenu"
      [] s = "game_over_input_system" -> st = "GameOver"
      [] s \in {GameChain[i] : i \in 1..Len(GameChain)} -> st \in {"InGame", "DebugUpgradeMenu"}
      [] s = "handle_upgrade_choice_interaction" -> st = "LevelUp"
      [] s = "debug_menu_button_interaction_system" -> st = "DebugUpgradeMenu"
      [] s = "apply_chosen_upgrade" -> events.unread # <<>>
      [] s \in {BulletChain[i] : i \in 1..Len(BulletChain)} -> TRUE
      [] OTHER -> st = "InGame"

\* on_enter_pause_like_state_actions and on_enter_ingame_state_actions
SetPaused_never(g, p) == g

SetPaused(g, p) ==
    [g EXCEPT !.game_timer.paused = p, !.difficulty_timer.paused = p]

\* apply_state_transition: the request is taken, then OnExit and OnEnter run
Entered == IF nextState # "none" /\ nextState # appState THEN nextState ELSE "none"

Exited == IF Entered # "none" THEN appState ELSE "none"

\* spawn_player.run_if(no_player_exists) on entering InGame
Spawns == Entered = "InGame" /\ ~player.live

\* what Res<NextState<AppState>> holds while the OnExit schedule runs:
\* apply_state_transition has taken the request out before it runs the schedule
NextStateOnExit == "none"

\* the run conditions of despawn_all_enemies and of despawn_player
should_despawn_all_entities_on_session_end(next_state) ==
    next_state \in {"MainMenu", "GameOver"}

should_despawn_player(next_state) == next_state \in {"GameOver", "MainMenu"}

\* cleanup_session_entities, on OnExit(InGame)
CleanupBullets(bs) == [b \in BulletIds |-> NoBullet]

CleanupOrbs_kept(os) == os

CleanupOrbs(os) == <<>>

BeginSessionFrame ==
    /\ stage = "idle"
    /\ game.wave_number < MaxWaves
    /\ sess.frames < sess.max_frames
    /\ stage' = "update"
    /\ nextState' = "none"
    /\ appState' = IF Entered # "none" THEN Entered ELSE appState
    /\ bullets' = IF Exited = "InGame" THEN CleanupBullets(bullets) ELSE bullets
    /\ orbs' = IF Exited = "InGame" THEN CleanupOrbs(orbs) ELSE orbs
    /\ game' = LET g == IF /\ Exited = "InGame"
                             /\ should_despawn_all_entities_on_session_end(NextStateOnExit)
                          THEN [game EXCEPT !.crowd = 0]
                          ELSE game
               IN IF Entered \in {"LevelUp", "DebugUpgradeMenu"} THEN SetPaused(g, TRUE)
                  ELSE IF Entered = "InGame" \/ Exited \in {"LevelUp", "DebugUpgradeMenu"}
                  THEN SetPaused(g, FALSE)
                  ELSE g
    /\ player' = IF Spawns THEN SpawnPlayer(0)
                 ELSE IF Exited = "InGame" /\ should_despawn_player(NextStateOnExit)
                 THEN [player EXCEPT !.live = FALSE]
                 ELSE player
    /\ enemies' = IF /\ Exited = "InGame"
                     /\ should_despawn_all_entities_on_session_end(NextStateOnExit)
                  THEN [e \in EnemyIds |-> [enemies[e] EXCEPT !.live = FALSE]]
                  ELSE enemies
    /\ stats' = IF Spawns THEN SpawnStats ELSE stats
    /\ weapon' = IF Spawns THEN Timer(FIRE_RATE_SECONDS, "Repeating") ELSE weapon
    /\ aura' = IF Spawns THEN AoeAuraWeapon(FALSE) ELSE aura
    /\ sess' = [sess EXCEPT
                  !.frames = @ + 1,
                  !.from = IF Entered # "none" THEN appState ELSE @,
                  !.visits = IF Entered = "LevelUp" THEN @ + 1 ELSE @,
                  !.visit_sent = IF Entered = "LevelUp" THEN 0 ELSE @,
                  !.visit_applied = IF Entered = "LevelUp" THEN 0 ELSE @,
                  !.both_pressed = IF Entered = "LevelUp" THEN FALSE ELSE @,
                  !.dead_pending = IF Entered = "GameOver" \/ Spawns THEN FALSE ELSE @]
    /\ ran' = {s \in systems : ~RunsIn(s, appState')}
    /\ hist' = [hist EXCEPT !.hits_this_tick = 0,
                            !.since_hit = IF @ < 0 THEN @ ELSE @ + dt,
                            !.age = IF Spawns THEN 0 ELSE @]
    /\ UNCHANGED <<effectVars, systems, dt, cmds, eprojs, score, skillVars, events>>

\* end of the Update schedule: the queued commands are applied, PostUpdate runs
EndSessionFrame ==
    /\ stage = "update"
    /\ ran = systems
    /\ bullets' = [b \in BulletIds |-> PropagateBullet(Flushed.bullets[b])]
    /\ enemies' = [e \in EnemyIds |-> PropagateEnemy(Flushed.enemies[e])]
    /\ eprojs' = [k \in EnemyProjectileIds |-> PropagateBullet(Flushed.eprojs[k])]
    /\ player' = IF \E i \in 1..Len(cmds) : cmds[i].op = "despawn_player"
                 THEN [player EXCEPT !.live = FALSE]
                 ELSE [player EXCEPT !.gpos = player.pos]
    /\ orbs' = Flushed.orbs
    /\ sprojs' = [p \in SkillProjectileIds |-> PropagateBullet(Flushed.sprojs[p])]
    /\ orbiters' = [k \in 1..Len(Flushed.orbiters) |-> PropagateOrbiter(Flushed.orbiters[k])]
    /\ effects' = [k \in 1..Len(Flushed.effects) |-> PropagateEffect(Flushed.effects[k])]
    /\ horrors' = Flushed.horrors
    /\ cmds' = <<>>
    /\ stage' = "idle"
    /\ hist' = AgedByFrame(hist)
    /\ UNCHANGED <<sessionVars, systems, dt, ran, appState, nextState, weapon, aura, score,
                   survivor, chain>>

(* ----------------- specification: bullets against enemies -------------- *)
\* enemy e starts 20, 120, 220, ... world units in front of the player
StartPosition(e) == 200 * e - 160

DamageBonuses == {0, 10}

BulletSystems ==
    {"player_shooting_system", "enemy_movement_system", "projectile_movement_system",
     "bullet_collision_system", "bullet_lifetime_system", "aoe_aura_weapon_system"}

InitBullet ==
    /\ systems = BulletSystems
    /\ EffectsUnused
    /\ stage = "idle"
    /\ dt \in BulletDeltas
    /\ ran = {}
    /\ cmds = <<>>
    /\ appState = "InGame"
    /\ nextState = "none"
    /\ \E p \in 0..MaxPierce, a \in 0..MaxAdditional, d \in DamageBonuses :
         player = [SpawnPlayer(0) EXCEPT !.projectile_piercing = p,
                                         !.additional_projectiles = a,
                                         !.bullet_damage_bonus = d]
    /\ weapon = Timer(FIRE_RATE_SECONDS, "Repeating")
    /\ \E act \in BOOLEAN : aura = AoeAuraWeapon(act)
    /\ enemies = [e \in EnemyIds |-> Grunt(StartPosition(e))]
    /\ bullets = [b \in BulletIds |-> NoBullet]
    /\ eprojs = [k \in EnemyProjectileIds |-> NoEnemyProjectile]
    /\ orbs = <<>>
    /\ score = 0
    /\ hist = NoHits
    /\ survivor = Survivor(1, 0)
    /\ sprojs = [p \in SkillProjectileIds |-> NoSkillProjectile]
    /\ horrors = [h \in HorrorIds |-> Horror(0)]
    /\ chain = NoCasts
    /\ SessionUnused

NextBullet ==
    \/ BeginFrame
    \/ player_shooting_system
    \/ enemy_movement_system
    \/ projectile_movement_system
    \/ bullet_collision_system
    \/ bullet_lifetime_system
    \/ aoe_aura_weapon_system
    \/ ApplyDeferred
    \/ EndFrame

SpecBullet == InitBullet /\ [][NextBullet]_vars

(* ------------------ specification: the player under attack ------------- *)
\* the player stands 200 world units from the origin
PlayerStart == 400

\* odd enemies are Grunts walking in from 50, 150, ... world units away; even
\* enemies are Spitters standing in range, 150, 250, ... world units away
AttackerStart(e) ==
    IF e % 2 = 1 THEN Grunt(PlayerStart + 100 * e) ELSE Spitter(PlayerStart + 100 * e + 100)

PlayerSystems ==
    {"player_enemy_collision_system", "player_invincibility_system",
     "check_player_death_system", "enemy_movement_system", "spitter_shooting_logic",
     "enemy_projectile_collision_system", "enemy_projectile_lifetime_system",
     "projectile_movement_system"}

InitPlayer ==
    /\ systems = PlayerSystems
    /\ EffectsUnused
    /\ stage = "idle"
    /\ dt \in Deltas
    /\ ran = {}
    /\ cmds = <<>>
    /\ appState = "InGame"
    /\ nextState = "none"
    /\ player = SpawnPlayer(PlayerStart)
    /\ weapon = Timer(FIRE_RATE_SECONDS, "Repeating")
    /\ aura = AoeAuraWeapon(FALSE)
    /\ enemies = [e \in EnemyIds |-> AttackerStart(e)]
    /\ bullets = [b \in BulletIds |-> NoBullet]
    /\ eprojs = [k \in EnemyProjectileIds |-> NoEnemyProjectile]
    /\ orbs = <<>>
    /\ score = 0
    /\ hist = NoHits
    /\ survivor = Survivor(1, 0)
    /\ sprojs = [p \in SkillProjectileIds |-> NoSkillProjectile]
    /\ horrors = [h \in HorrorIds |-> Horror(0)]
    /\ chain = NoCasts
    /\ SessionUnused

NextPlayer ==
    \/ BeginFrame
    \/ player_enemy_collision_system
    \/ player_invincibility_system
    \/ check_player_death_system
    \/ enemy_movement_system
    \/ spitter_shooting_logic
    \/ enemy_projectile_collision_system
    \/ enemy_projectile_lifetime_system
    \/ projectile_movement_system
    \/ ApplyDeferred
    \/ EndFrame

SpecPlayer == InitPlayer /\ [][NextPlayer]_vars

(* ------------------ specification: skill projectiles ------------------- *)
\* horrors stand in a row in front of the caster, 100 or 250 world units apart
HorrorSpacings == {200, 500}

HorrorStart(h, spacing) == 300 + spacing * (h - 1)

SkillSystems ==
    {"active_skill_cooldown_recharge_system", "survivor_skill_input_system",
     "skill_projectile_lifetime_system", "skill_projectile_collision_system",
     "skill_projectile_movement"}

InitSkill ==
    /\ systems = SkillSystems
    /\ EffectsUnused
    /\ stage = "idle"
    /\ dt \in BulletDeltas
    /\ ran = {}
    /\ cmds = <<>>
    /\ appState = "InGame"
    /\ nextState = "none"
    /\ player = SpawnPlayer(0)
    /\ weapon = Timer(FIRE_RATE_SECONDS, "Repeating")
    /\ aura = AoeAuraWeapon(FALSE)
    /\ enemies = [e \in EnemyIds |-> Grunt(StartPosition(e))]
    /\ bullets = [b \in BulletIds |-> NoBullet]
    /\ eprojs = [k \in EnemyProjectileIds |-> NoEnemyProjectile]
    /\ orbs = <<>>
    /\ score = 0
    /\ hist = NoHits
    /\ \E id \in ProjectileSkills, b \in 0..MaxBounces : survivor = Survivor(id, b)
    /\ sprojs = [p \in SkillProjectileIds |-> NoSkillProjectile]
    /\ \E spacing \in HorrorSpacings : horrors = [h \in HorrorIds |-> Horror(HorrorStart(h, spacing))]
    /\ chain = NoCasts
    /\ SessionUnused

NextSkill ==
    \/ BeginFrame
    \/ active_skill_cooldown_recharge_system
    \/ survivor_skill_input_system
    \/ skill_projectile_lifetime_system
    \/ skill_projectile_collision_system
    \/ skill_projectile_movement
    \/ ApplyDeferred
    \/ EndFrame

SpecSkill == InitSkill /\ [][NextSkill]_vars

\* the scheduler keeps running frames
FairSpecSkill == SpecSkill /\ WF_vars(NextSkill)

(* ------------------ specification: experience awards ------------------ *)
XpSystems == {"experience_system", "handle_upgrade_choice_interaction", "apply_chosen_upgrade"}

\* the XP credited in total by a player who has just reached `level`
RECURSIVE XpSpent(_)
XpSpent(level) == IF level <= 1 THEN 0 ELSE XpSpent(level - 1) + ExperienceToNextLevel(level - 1)

\* a session under way: the player has reached some level and may be short of the next
InitXp ==
    /\ systems = XpSystems
    /\ EffectsUnused
    /\ stage = "idle"
    /\ dt = 1
    /\ ran = {}
    /\ cmds = <<>>
    /\ appState = "InGame"
    /\ nextState = "none"
    /\ player = SpawnPlayer(0)
    /\ weapon = Timer(FIRE_RATE_SECONDS, "Repeating")
    /\ aura = AoeAuraWeapon(FALSE)
    /\ enemies = [e \in EnemyIds |-> Grunt(StartPosition(e))]
    /\ bullets = [b \in BulletIds |-> NoBullet]
    /\ eprojs = [k \in EnemyProjectileIds |-> NoEnemyProjectile]
    /\ orbs = <<>>
    /\ score = 0
    /\ hist = NoHits
    /\ survivor = Survivor(1, 0)
    /\ sprojs = [p \in SkillProjectileIds |-> NoSkillProjectile]
    /\ horrors = [h \in HorrorIds |-> Horror(0)]
    /\ chain = NoCasts
    /\ \E level \in 1..MaxLevel, short \in {0, 50}, m \in {100, 120} :
         LET xp == IF short = 0 THEN 0 ELSE ExperienceToNextLevel(level) - short
         IN stats = [SpawnStats EXCEPT !.level = level, !.current_level_xp = xp,
                                       !.experience = XpSpent(level) + xp,
                                       !.xp_gain_multiplier = m]
    /\ game = ResetGameState(NewGame)
    /\ events = NoEvents
    /\ sess = [NoSession EXCEPT !.sessions = 1, !.max_awards = MaxAwards,
                                !.max_frames = 2 * (MaxAwards + 1)]

NextXp ==
    \/ BeginSessionFrame
    \/ experience_system
    \/ handle_upgrade_choice_interaction
    \/ apply_chosen_upgrade
    \/ EndSessionFrame

SpecXp == InitXp /\ [][NextXp]_vars

(* ------------------ specification: sessions and phases ----------------- *)
SessionSystems ==
    {"main_menu_input_system", "game_over_input_system", "player_enemy_collision_system",
     "check_player_death_system", "update_game_timer",
     "difficulty_scaling_system", "global_debug_key_listener", "experience_system",
     "handle_upgrade_choice_interaction", "debug_menu_button_interaction_system",
     "apply_chosen_upgrade"}

\* a session under way in its third wave: the player has taken upgrades, is one
\* contact from death and 50 XP short of level 4
WornPlayer ==
    [SpawnPlayer(0) EXCEPT !.health = GRUNT_DAMAGE_ON_COLLISION,
                           !.max_health = INITIAL_PLAYER_MAX_HEALTH + MAX_HEALTH_UPGRADE,
                           !.invincibility_timer = TimerTick(@, INVINCIBILITY_SECONDS),
                           !.bullet_damage_bonus = 5,
                           !.projectile_piercing = 1,
                           !.additional_projectiles = 1]

WornStats ==
    [SpawnStats EXCEPT !.level = 3, !.current_level_xp = ExperienceToNextLevel(3) - 50,
                       !.experience = XpSpent(3) + ExperienceToNextLevel(3) - 50,
                       !.xp_gain_multiplier = 120, !.orbiting_active = TRUE,
                       !.num_orbiters = 2]

WornGame ==
    [ResetGameState(NewGame) EXCEPT
       !.wave_number = 3,
       !.max_enemies = MaxEnemiesForWave(3),
       !.spawn_timer.dur = ShorterSpawnInterval(ShorterSpawnInterval(@)),
       !.difficulty_timer.elapsed = 100,
       !.game_timer.elapsed = 2 * DIFFICULTY_INCREASE_INTERVAL_SECONDS + 100]

\* the app has just started in MainMenu, or a session is under way
InitSession ==
    /\ systems = SessionSystems
    /\ EffectsUnused
    /\ stage = "idle"
    /\ dt = MaxDelta
    /\ ran = {}
    /\ cmds = <<>>
    /\ nextState = "none"
    /\ weapon = Timer(FIRE_RATE_SECONDS, "Repeating")
    /\ bullets = [b \in BulletIds |-> NoBullet]
    /\ eprojs = [k \in EnemyProjectileIds |-> NoEnemyProjectile]
    /\ orbs = <<>>
    /\ hist = NoHits
    /\ survivor = Survivor(1, 0)
    /\ sprojs = [p \in SkillProjectileIds |-> NoSkillProjectile]
    /\ horrors = [h \in HorrorIds |-> Horror(0)]
    /\ chain = NoCasts
    /\ events = NoEvents
    /\ \/ /\ appState = "MainMenu"
          /\ player = [SpawnPlayer(0) EXCEPT !.live = FALSE]
          /\ stats = SpawnStats
          /\ aura = AoeAuraWeapon(FALSE)
          /\ game = NewGame
          /\ score = 0
          /\ enemies = [e \in EnemyIds |-> [Grunt(0) EXCEPT !.live = FALSE]]
          /\ sess = [NoSession EXCEPT !.max_awards = MaxSessionAwards,
                                      !.max_frames = MaxFrames]
       \/ /\ appState = "InGame"
          /\ player = WornPlayer
          /\ stats = WornStats
          /\ aura = AoeAuraWeapon(TRUE)
          /\ game = WornGame
          /\ score = 3 * SCORE_PER_KILL
          /\ \E near \in BOOLEAN :
               enemies = [e \in EnemyIds |->
                            IF e = 1 /\ near THEN Grunt(0) ELSE Grunt(StartPosition(e) + 2000)]
          /\ sess = [NoSession EXCEPT !.sessions = 1, !.max_awards = MaxSessionAwards,
                                      !.max_frames = MaxFrames]

NextSession ==
    \/ BeginSessionFrame
    \/ main_menu_input_system
    \/ game_over_input_system
    \/ player_enemy_collision_system
    \/ check_player_death_system
    \/ update_game_timer
    \/ difficulty_scaling_system
    \/ global_debug_key_listener
    \/ experience_system
    \/ handle_upgrade_choice_interaction
    \/ debug_menu_button_interaction_system
    \/ apply_chosen_upgrade
    \/ EndSessionFrame

SpecSession == InitSession /\ [][NextSession]_vars

(* ------------------ specification: repeating timers -------------------- *)
TimerSystems ==
    {"difficulty_scaling_system", "player_shooting_system", "enemy_spawn_system",
     "spitter_shooting_logic", "aoe_aura_weapon_system"}

\* the frame time differs from frame to frame: a short frame or a very long one
TimerDeltas == {1, LongDelta}

FrameTimeChanges ==
    /\ stage = "idle"
    /\ dt' \in TimerDeltas \ {dt}
    /\ UNCHANGED <<effectVars, systems, stage, ran, cmds, baseVars, skillVars, sessionVars>>

\* the spawn interval that wave_number - 1 elapses of the difficulty timer leave
RECURSIVE IntervalAtWave(_)
IntervalAtWave(wave_number) ==
    IF wave_number <= 1 THEN INITIAL_SPAWN_INTERVAL_SECONDS
    ELSE ShorterSpawnInterval(IntervalAtWave(wave_number - 1))

\* the first waves of a session and the waves in which the cap and the floor are met
TimerWaves == (1..3) \cup ((MaxWaves - 3)..(MaxWaves - 1))

\* a repeating timer at its start, or one step before it elapses
Running(t, step, near) == IF near THEN [t EXCEPT !.elapsed = t.dur - step] ELSE t

\* a session in some wave; a Spitter stands in range and inside the aura
InitTimers ==
    /\ systems = TimerSystems
    /\ EffectsUnused
    /\ stage = "idle"
    /\ dt \in TimerDeltas
    /\ ran = {}
    /\ cmds = <<>>
    /\ appState = "InGame"
    /\ nextState = "none"
    /\ player = SpawnPlayer(0)
    /\ bullets = [b \in BulletIds |-> NoBullet]
    /\ eprojs = [k \in EnemyProjectileIds |-> NoEnemyProjectile]
    /\ orbs = <<>>
    /\ score = 0
    /\ hist = NoHits
    /\ survivor = Survivor(1, 0)
    /\ sprojs = [p \in SkillProjectileIds |-> NoSkillProjectile]
    /\ horrors = [h \in HorrorIds |-> Horror(0)]
    /\ chain = NoCasts
    /\ stats = SpawnStats
    /\ events = NoEvents
    /\ sess = [NoSession EXCEPT !.sessions = 1, !.max_frames = MaxTimerFrames]
    /\ \E near \in BOOLEAN, wave_number \in TimerWaves :
         /\ weapon = Running(Timer(FIRE_RATE_SECONDS, "Repeating"), 1, near)
         /\ aura = [AoeAuraWeapon(TRUE) EXCEPT !.damage_tick_timer = Running(@, 1, near)]
         /\ enemies = [e \in EnemyIds |->
                         IF e = 1
                         THEN [Spitter(100) EXCEPT !.spitter.fire_timer = Running(@, 1, near)]
                         ELSE [Grunt(0) EXCEPT !.live = FALSE]]
         /\ game = [ResetGameState(NewGame) EXCEPT
                      !.wave_number = wave_number,
                      !.max_enemies = MaxEnemiesForWave(wave_number),
                      !.spawn_timer = Running([@ EXCEPT !.dur = IntervalAtWave(wave_number)],
                                              TimeDelta(1), near),
                      !.difficulty_timer = Running(@, 1, near)]

NextTimers ==
    \/ BeginSessionFrame
    \/ FrameTimeChanges
    \/ difficulty_scaling_system
    \/ player_shooting_system
    \/ enemy_spawn_system
    \/ spitter_shooting_logic
    \/ aoe_aura_weapon_system
    \/ ApplyDeferred
    \/ EndSessionFrame

SpecTimers == InitTimers /\ [][NextTimers]_vars

(* ---------------- spawning across the end of a session ------------------ *)
SpawnSystems ==
    {"enemy_spawn_system", "difficulty_scaling_system", "player_enemy_collision_system",
     "check_player_death_system", "game_over_input_system", "main_menu_input_system"}

\* the further enemies of the third wave: none, one less than fills MaxEnemies
\* together with the Grunt at the player, and exactly as many as fill it
SpawnCrowds == {0, MaxEnemiesForWave(3) - 2, MaxEnemiesForWave(3) - 1}

InitSpawn ==
    /\ systems = SpawnSystems
    /\ EffectsUnused
    /\ stage = "idle"
    /\ dt \in {1, MaxDelta}
    /\ ran = {}
    /\ cmds = <<>>
    /\ appState = "InGame"
    /\ nextState = "none"
    /\ weapon = Timer(FIRE_RATE_SECONDS, "Repeating")
    /\ aura = AoeAuraWeapon(FALSE)
    /\ bullets = [b \in BulletIds |-> NoBullet]
    /\ eprojs = [k \in EnemyProjectileIds |-> NoEnemyProjectile]
    /\ orbs = <<>>
    /\ score = 0
    /\ hist = NoHits
    /\ survivor = Survivor(1, 0)
    /\ sprojs = [p \in SkillProjectileIds |-> NoSkillProjectile]
    /\ horrors = [h \in HorrorIds |-> Horror(0)]
    /\ chain = NoCasts
    /\ stats = SpawnStats
    /\ events = NoEvents
    /\ sess = [NoSession EXCEPT !.sessions = 1, !.max_frames = MaxFrames]
    /\ \E wounded \in BOOLEAN, near \in BOOLEAN, crowd \in SpawnCrowds :
         /\ player = IF wounded THEN WornPlayer
                     ELSE [WornPlayer EXCEPT !.health = INITIAL_PLAYER_MAX_HEALTH]
         /\ enemies = [e \in EnemyIds |-> IF e = 1 THEN Grunt(0)
                                          ELSE [Grunt(0) EXCEPT !.live = FALSE]]
         /\ game = [WornGame EXCEPT !.crowd = crowd,
                                    !.spawn_timer = Running(@, TimeDelta(1), near)]

NextSpawn ==
    \/ BeginSessionFrame
    \/ enemy_spawn_system
    \/ difficulty_scaling_system
    \/ player_enemy_collision_system
    \/ check_player_death_system
    \/ game_over_input_system
    \/ main_menu_input_system
    \/ EndSessionFrame

SpecSpawn == InitSpawn /\ [][NextSpawn]_vars

(* -------------------- specification: orbiting seeds -------------------- *)
OrbitSystems ==
    {"manage_orbiters_system", "orbiter_movement_system", "orbiter_collision_system"}

\* enemy e stands on the orbit circle; its pos and gpos are its bearing
OrbitBearings == {15, 100}

OrbitEnemy(e, spread) ==
    [Grunt(75 + (e - 1) * spread) EXCEPT !.speed = 0]

\* n orbiters as an earlier reconciliation for n orbiters spawned them, after
\* the transform propagation of that frame
EarlierOrbiters(n) ==
    [k \in 1..n |-> [SpawnOrbiter(AngleOffset(k - 1, n), ORBITER_DAMAGE_PER_HIT)
                        EXCEPT !.id = k, !.gangle = AngleOffset(k - 1, n)]]

\* the weapon component was written since the reconciliation last ran: it asks
\* for any number of orbiters, and the player has any number of them
InitOrbit ==
    /\ systems = OrbitSystems
    /\ stage = "idle"
    /\ dt \in Deltas
    /\ ran = {}
    /\ cmds = <<>>
    /\ appState = "InGame"
    /\ nextState = "none"
    /\ player = SpawnPlayer(0)
    /\ weapon = Timer(FIRE_RATE_SECONDS, "Repeating")
    /\ aura = AoeAuraWeapon(FALSE)
    /\ \E spread \in OrbitBearings : enemies = [e \in EnemyIds |-> OrbitEnemy(e, spread)]
    /\ bullets = [b \in BulletIds |-> NoBullet]
    /\ eprojs = [k \in EnemyProjectileIds |-> NoEnemyProjectile]
    /\ orbs = <<>>
    /\ score = 0
    /\ hist = NoHits
    /\ survivor = Survivor(1, 0)
    /\ sprojs = [p \in SkillProjectileIds |-> NoSkillProjectile]
    /\ horrors = [h \in HorrorIds |-> Horror(0)]
    /\ chain = NoCasts
    /\ \E active \in BOOLEAN, num \in 0..MaxOrbiters :
          stats = [SpawnStats EXCEPT !.orbiting_active = active, !.num_orbiters = num]
    /\ game = NewGame
    /\ events = NoEvents
    /\ sess = NoSession
    /\ \E n \in 0..MaxOrbiters : orbiters = EarlierOrbiters(n)
    /\ effects = <<>>

NextOrbit ==
    \/ BeginFrame
    \/ manage_orbiters_system
    \/ orbiter_movement_system
    \/ orbiter_collision_system
    \/ ApplyDeferred
    \/ EndFrame

SpecOrbit == InitOrbit /\ [][NextOrbit]_vars

(* ------------------ specification: skill effects in an area ------------ *)
EffectSystems ==
    {"active_skill_cooldown_recharge_system", "survivor_skill_input_system",
     "active_skill_aoe_system", "freezing_nova_effect_damage_system",
     "frozen_status_system"}

\* horror h stands 60, 120, 180, ... world units from the caster
EffectHorrorStart(h) == 120 * h

\* the skill of the run, its cooldown_multiplier in percent, and whether the key
\* is pressed whenever a cast is left (eager) or at any time
EffectCasters ==
    {<<6, 100, FALSE>>, <<6, 100, TRUE>>, <<5, 100, FALSE>>, <<5, 20, FALSE>>,
     <<5, 50, TRUE>>, <<5, 0, TRUE>>}

InitEffects ==
    /\ systems = EffectSystems
    /\ stage = "idle"
    /\ dt \in Deltas
    /\ ran = {}
    /\ cmds = <<>>
    /\ appState = "InGame"
    /\ nextState = "none"
    /\ player = SpawnPlayer(0)
    /\ weapon = Timer(FIRE_RATE_SECONDS, "Repeating")
    /\ aura = AoeAuraWeapon(FALSE)
    /\ enemies = [e \in EnemyIds |-> Grunt(StartPosition(e))]
    /\ bullets = [b \in BulletIds |-> NoBullet]
    /\ eprojs = [k \in EnemyProjectileIds |-> NoEnemyProjectile]
    /\ orbs = <<>>
    /\ score = 0
    /\ hist = NoHits
    /\ \E c \in EffectCasters :
          survivor = [Survivor(c[1], 0) EXCEPT !.skill.cooldown_multiplier = c[2],
                                               !.eager = c[3]]
    /\ sprojs = [p \in SkillProjectileIds |-> NoSkillProjectile]
    /\ horrors = [h \in HorrorIds |-> Horror(EffectHorrorStart(h))]
    /\ chain = [NoCasts EXCEPT !.budget = MaxCasts + 1]
    /\ SessionUnused
    /\ EffectsUnused

NextEffects ==
    \/ BeginFrame
    \/ active_skill_cooldown_recharge_system
    \/ survivor_skill_input_system
    \/ active_skill_aoe_system
    \/ freezing_nova_effect_damage_system
    \/ frozen_status_system
    \/ ApplyDeferred
    \/ EndFrame

SpecEffects == InitEffects /\ [][NextEffects]_vars

(* ------------------ specification: projectile lifetimes ---------------- *)
\* the three kinds of projectile in one world: the player shoots at a Grunt, a
\* Spitter in range shoots at the player, the caster throws Void Lances at the
\* horrors; of each kind one projectile that missed is still in flight, shortly
\* before the end of its lifetime
LifetimeSystems ==
    {"player_shooting_system", "projectile_movement_system", "bullet_collision_system",
     "bullet_lifetime_system", "spitter_shooting_logic", "enemy_projectile_collision_system",
     "enemy_projectile_lifetime_system", "active_skill_cooldown_recharge_system",
     "survivor_skill_input_system", "skill_projectile_movement",
     "skill_projectile_lifetime_system", "skill_projectile_collision_system"}

\* the time a projectile in flight has left, in 50 ms steps
StrayRemaining == {1, 4}

\* a bullet fired `age` ago away from the enemies
StrayBullet(age) ==
    [SpawnBullet(0, -1, BASE_BULLET_DAMAGE, BASE_BULLET_SPEED, 0)
        EXCEPT !.pos = -BASE_BULLET_SPEED * age, !.gpos = -BASE_BULLET_SPEED * age,
               !.life.elapsed = age]

\* a Spitter projectile fired `age` ago from `from` that has passed the player
StrayEnemyProjectile(from, age) ==
    [SpawnSpitterProjectile(from, 1, SPITTER_PROJECTILE_SPEED, SPITTER_PROJECTILE_DAMAGE)
        EXCEPT !.pos = from + SPITTER_PROJECTILE_SPEED * age,
               !.gpos = from + SPITTER_PROJECTILE_SPEED * age,
               !.life.elapsed = age]

\* a Void Lance thrown `age` ago: away from the horrors, or towards them by a
\* caster further back, so that it has just come into touch with the first
StraySkillProjectile(age, direction) ==
    LET def == SkillLibrary(3)
        position == IF direction < 0
                    THEN -(PLAYER_SIZE + def.size_y) - def.speed * age
                    ELSE HorrorStart(1, 200) - def.speed
    IN [SpawnSkillProjectile(position, direction, def, 3, def.base_damage, def.piercing,
                             0, <<>>, 0, 0)
           EXCEPT !.pos = position, !.gpos = position, !.life.elapsed = age]

\* the Spitter stands behind the player, the Grunts in front
LifetimeEnemy(e, age) ==
    IF e = 2
    THEN [Spitter(-500) EXCEPT !.spitter.fire_timer.elapsed = age % SPITTER_FIRE_RATE]
    ELSE Grunt(300 * e)

InitLifetime ==
    /\ systems = LifetimeSystems
    /\ EffectsUnused
    /\ stage = "idle"
    /\ dt = MaxDelta
    /\ ran = {}
    /\ cmds = <<>>
    /\ appState = "InGame"
    /\ nextState = "none"
    /\ player = SpawnPlayer(0)
    /\ aura = AoeAuraWeapon(FALSE)
    /\ \E r \in StrayRemaining :
          LET age == BULLET_LIFETIME_SECONDS - r
          IN /\ bullets = [b \in BulletIds |-> IF b = 1 THEN StrayBullet(age) ELSE NoBullet]
             /\ weapon = [Timer(FIRE_RATE_SECONDS, "Repeating")
                             EXCEPT !.elapsed = age % FIRE_RATE_SECONDS]
    /\ \E r \in StrayRemaining :
          LET age == SPITTER_PROJECTILE_LIFETIME - r
          IN /\ eprojs = [k \in EnemyProjectileIds |->
                            IF k = 1 THEN StrayEnemyProjectile(-500, age)
                            ELSE NoEnemyProjectile]
             /\ enemies = [e \in EnemyIds |-> LifetimeEnemy(e, age)]
    /\ \E r \in StrayRemaining, direction \in {-1, 1} :
          LET def == SkillLibrary(3)
              age == def.lifetime_secs - r
          IN /\ sprojs = [p \in SkillProjectileIds |->
                            IF p = 1 THEN StraySkillProjectile(age, direction)
                            ELSE NoSkillProjectile]
             /\ survivor = [Survivor(3, 0) EXCEPT
                              !.eager = TRUE,
                              !.skill.current_cooldown = 2 * def.base_cooldown - age]
    /\ orbs = <<>>
    /\ score = 0
    /\ hist = NoHits
    /\ horrors = [h \in HorrorIds |-> Horror(HorrorStart(h, 200))]
    /\ chain = NoCasts
    /\ SessionUnused

NextLifetime ==
    \/ BeginFrame
    \/ player_shooting_system
    \/ projectile_movement_system
    \/ bullet_collision_system
    \/ bullet_lifetime_system
    \/ spitter_shooting_logic
    \/ enemy_projectile_collision_system
    \/ enemy_projectile_lifetime_system
    \/ active_skill_cooldown_recharge_system
    \/ survivor_skill_input_system
    \/ skill_projectile_movement
    \/ skill_projectile_lifetime_system
    \/ skill_projectile_collision_system
    \/ ApplyDeferred
    \/ EndFrame

SpecLifetime == InitLifetime /\ [][NextLifetime]_vars

(* ------------------ specification: the player's health ---------------- *)
HealthSystems ==
    {"main_menu_input_system", "game_over_input_system",
     "player_health_regeneration_system", "player_enemy_collision_system",
     "player_invincibility_system", "check_player_death_system",
     "global_debug_key_listener", "debug_menu_button_interaction_system",
     "apply_chosen_upgrade"}

\* regeneration rates in units of 0.5 HP/sec: none, one "Bound by Ichor", and a
\* rate that heals several HP in one frame
RegenRates == {0, HEALTH_REGEN_UPGRADE, 60}

\* the health the player is short of max_health
Wounds == {0, 1, INITIAL_PLAYER_MAX_HEALTH + MAX_HEALTH_UPGRADE - GRUNT_DAMAGE_ON_COLLISION}

\* a session under way: the player has taken one MaxHealth upgrade, a Grunt may
\* be in contact
InitHealth ==
    /\ systems = HealthSystems
    /\ EffectsUnused
    /\ stage = "idle"
    /\ dt = MaxDelta
    /\ ran = {}
    /\ cmds = <<>>
    /\ appState = "InGame"
    /\ nextState = "none"
    /\ \E wound \in Wounds, rate \in RegenRates :
         player = [SpawnPlayer(0) EXCEPT
                     !.max_health = INITIAL_PLAYER_MAX_HEALTH + MAX_HEALTH_UPGRADE,
                     !.health = INITIAL_PLAYER_MAX_HEALTH + MAX_HEALTH_UPGRADE - wound,
                     !.health_regen_rate = rate,
                     !.invincibility_timer = TimerTick(@, INVINCIBILITY_SECONDS)]
    /\ \E near \in BOOLEAN :
         enemies = [e \in EnemyIds |->
                      IF e = 1 /\ near THEN Grunt(0) ELSE Grunt(StartPosition(e) + 2000)]
    /\ weapon = Timer(FIRE_RATE_SECONDS, "Repeating")
    /\ aura = AoeAuraWeapon(FALSE)
    /\ bullets = [b \in BulletIds |-> NoBullet]
    /\ eprojs = [k \in EnemyProjectileIds |-> NoEnemyProjectile]
    /\ orbs = <<>>
    /\ score = 0
    /\ hist = [NoHits EXCEPT !.age = INVINCIBILITY_SECONDS]
    /\ survivor = Survivor(1, 0)
    /\ sprojs = [p \in SkillProjectileIds |-> NoSkillProjectile]
    /\ horrors = [h \in HorrorIds |-> Horror(0)]
    /\ chain = NoCasts
    /\ stats = SpawnStats
    /\ game = ResetGameState(NewGame)
    /\ events = NoEvents
    /\ sess = [NoSession EXCEPT !.sessions = 1, !.max_frames = 2 * MaxFrames]

NextHealth ==
    \/ BeginSessionFrame
    \/ main_menu_input_system
    \/ game_over_input_system
    \/ player_health_regeneration_system
    \/ player_enemy_collision_system
    \/ player_invincibility_system
    \/ check_player_death_system
    \/ global_debug_key_listener
    \/ debug_menu_button_interaction_system
    \/ apply_chosen_upgrade
    \/ EndSessionFrame

SpecHealth == InitHealth /\ [][NextHealth]_vars

(* ------------------- the world while a menu is open --------------------- *)
FreezeSystems ==
    {"projectile_movement_system", "bullet_collision_system", "bullet_lifetime_system",
     "enemy_movement_system", "enemy_projectile_collision_system",
     "enemy_projectile_lifetime_system", "player_enemy_collision_system",
     "check_player_death_system", "global_debug_key_listener", "experience_system",
     "handle_upgrade_choice_interaction", "apply_chosen_upgrade"}

\* a session under way: a bullet and a Spitter projectile are in flight, both
\* past everything they could hit, an experience orb lies in the world and a
\* Grunt walks towards the player, or has reached the player, who is wounded
InitFreeze ==
    /\ systems = FreezeSystems
    /\ EffectsUnused
    /\ stage = "idle"
    /\ dt = MaxDelta
    /\ ran = {}
    /\ cmds = <<>>
    /\ appState = "InGame"
    /\ nextState = "none"
    /\ \E near \in BOOLEAN :
         /\ player = [SpawnPlayer(0) EXCEPT
                        !.health = IF near THEN GRUNT_DAMAGE_ON_COLLISION ELSE @,
                        !.invincibility_timer = TimerTick(@, INVINCIBILITY_SECONDS)]
         /\ enemies = [e \in EnemyIds |-> IF e = 1 /\ near THEN Grunt(0) ELSE Grunt(300 * e)]
    /\ weapon = Timer(FIRE_RATE_SECONDS, "Repeating")
    /\ aura = AoeAuraWeapon(FALSE)
    /\ bullets = [b \in BulletIds |->
                    IF b = 1 THEN StrayBullet(BULLET_LIFETIME_SECONDS - 12) ELSE NoBullet]
    /\ eprojs = [k \in EnemyProjectileIds |->
                   IF k = 1
                   THEN StrayEnemyProjectile(-500, SPITTER_PROJECTILE_LIFETIME - 12)
                   ELSE NoEnemyProjectile]
    /\ orbs = <<[pos |-> 600, from |-> 1]>>
    /\ score = SCORE_PER_KILL
    /\ hist = NoHits
    /\ survivor = Survivor(1, 0)
    /\ sprojs = [p \in SkillProjectileIds |-> NoSkillProjectile]
    /\ horrors = [h \in HorrorIds |-> Horror(0)]
    /\ chain = NoCasts
    /\ stats = SpawnStats
    /\ game = ResetGameState(NewGame)
    /\ events = NoEvents
    /\ sess = [NoSession EXCEPT !.sessions = 1, !.max_awards = MaxSessionAwards,
                                !.max_frames = MaxFrames]

NextFreeze ==
    \/ BeginSessionFrame
    \/ projectile_movement_system
    \/ bullet_collision_system
    \/ bullet_lifetime_system
    \/ enemy_movement_system
    \/ enemy_projectile_collision_system
    \/ enemy_projectile_lifetime_system
    \/ player_enemy_collision_system
    \/ check_player_death_system
    \/ global_debug_key_listener
    \/ experience_system
    \/ handle_upgrade_choice_interaction
    \/ apply_chosen_upgrade
    \/ ApplyDeferred
    \/ EndSessionFrame

SpecFreeze == InitFreeze /\ [][NextFreeze]_vars

(* ------------------- a player spawned among attackers ------------------- *)
RespawnSystems ==
    {"main_menu_input_system", "player_enemy_collision_system", "player_invincibility_system",
     "check_player_death_system", "spitter_shooting_logic", "projectile_movement_system",
     "enemy_projectile_collision_system", "enemy_projectile_lifetime_system"}

\* the main menu after a session that left its enemies behind: a Grunt stands
\* where the player will be spawned, a Spitter in range is about to fire or has
\* just fired, and one of its projectiles is on the way
InitRespawn ==
    /\ systems = RespawnSystems
    /\ EffectsUnused
    /\ stage = "idle"
    /\ dt \in Deltas
    /\ ran = {}
    /\ cmds = <<>>
    /\ appState = "MainMenu"
    /\ nextState = "none"
    /\ player = [SpawnPlayer(0) EXCEPT !.live = FALSE]
    /\ weapon = Timer(FIRE_RATE_SECONDS, "Repeating")
    /\ aura = AoeAuraWeapon(FALSE)
    /\ bullets = [b \in BulletIds |-> NoBullet]
    /\ \E near \in BOOLEAN, flown \in {2, 6} :
         /\ enemies = [e \in EnemyIds |->
                         IF e = 1 THEN Grunt(0)
                         ELSE IF e = 2
                         THEN [Spitter(-300) EXCEPT
                                 !.spitter.fire_timer = Running(@, MaxDelta, near)]
                         ELSE [Grunt(0) EXCEPT !.live = FALSE]]
         /\ eprojs = [k \in EnemyProjectileIds |->
                        IF k = 1 THEN StrayEnemyProjectile(-300, flown)
                        ELSE NoEnemyProjectile]
    /\ orbs = <<>>
    /\ score = 0
    /\ hist = NoHits
    /\ survivor = Survivor(1, 0)
    /\ sprojs = [p \in SkillProjectileIds |-> NoSkillProjectile]
    /\ horrors = [h \in HorrorIds |-> Horror(0)]
    /\ chain = NoCasts
    /\ stats = SpawnStats
    /\ game = ResetGameState(NewGame)
    /\ events = NoEvents
    /\ sess = [NoSession EXCEPT !.sessions = 1, !.max_frames = 2 * MaxFrames]

NextRespawn ==
    \/ BeginSessionFrame
    \/ main_menu_input_system
    \/ player_enemy_collision_system
    \/ player_invincibility_system
    \/ check_player_death_system
    \/ spitter_shooting_logic
    \/ projectile_movement_system
    \/ enemy_projectile_collision_system
    \/ enemy_projectile_lifetime_system
    \/ ApplyDeferred
    \/ EndSessionFrame

SpecRespawn == InitRespawn /\ [][NextRespawn]_vars

(* ------------------- properties: bullets against enemies --------------- *)
CmdsOf(op, id) == {i \in 1..Len(cmds) : cmds[i].op = op /\ cmds[i].id = id}

\* a despawn of enemy e has been requested or applied
Killed(e) == ~enemies[e].live \/ CmdsOf("despawn_enemy", e) # {}

\* experience orbs spawned (or queued to spawn) for enemy e
OrbsFor(e) ==
    Cardinality({i \in 1..Len(orbs) : orbs[i].from = e}) + Cardinality(CmdsOf("spawn_orb", e))

OrbAt(e, position) ==
    \/ \E i \in 1..Len(orbs) : orbs[i].from = e /\ orbs[i].pos = position
    \/ \E i \in CmdsOf("spawn_orb", e) : cmds[i].pos = position

BulletDamage == BASE_BULLET_DAMAGE + player.bullet_damage_bonus

\* C1: death handling fires exactly once per enemy, also when several bullets
\* overlap it in one tick: a killed enemy has exactly one orb and has added
\* exactly 10 to the score; an enemy that is not killed has added none.
C1_DeathHandledOnce ==
    /\ \A e \in EnemyIds : OrbsFor(e) = (IF Killed(e) THEN 1 ELSE 0)
    /\ score = SCORE_PER_KILL * Cardinality({e \in EnemyIds : Killed(e)})

\* C2: without the aura, an enemy of health H hit by bullets of damage D is
\* alive with health H - D * hits, no orb and no score before its
\* ceil(H / D)-th hit; that hit despawns it, spawns an orb at its position and,
\* when no later hit lands, adds exactly 10 to the score with exactly one orb
\* (health 20, damage 10: alive with health 10 after one hit, dead on the second).
C2_DiesOnCeilHit ==
    ~aura.is_active =>
        /\ \A e \in EnemyIds :
             LET en == enemies[e]
                 K == CeilDiv(en.h0, BulletDamage)
             IN /\ en.nhits < K =>
                      /\ en.live /\ ~Killed(e)
                      /\ en.health = en.h0 - BulletDamage * en.nhits
                      /\ en.health > 0
                      /\ OrbsFor(e) = 0
                /\ en.nhits >= K =>
                      /\ Killed(e)
                      /\ en.death_hit = K
                      /\ OrbAt(e, en.death_pos)
                /\ en.nhits = K => OrbsFor(e) = 1
        /\ (\A e \in EnemyIds : enemies[e].nhits <= CeilDiv(enemies[e].h0, BulletDamage)) =>
              score = SCORE_PER_KILL *
                        Cardinality({e \in EnemyIds :
                                        enemies[e].nhits = CeilDiv(enemies[e].h0, BulletDamage)})

\* an enemy of health 20 has taken two hits of damage 10 from two volleys of
\* one bullet each and is despawned with one orb
C2_Witness ==
    /\ ~aura.is_active /\ BulletDamage = 10
    /\ player.additional_projectiles = 0 /\ player.projectile_piercing = 0
    /\ \E e \in EnemyIds :
         /\ enemies[e].h0 = 20 /\ enemies[e].nhits = 2 /\ ~enemies[e].live
         /\ OrbsFor(e) = 1 /\ score >= 10

\* C3: at the end of every tick no live enemy has health at or below 0.
C3_NoDeadEnemyAtTickEnd ==
    stage = "idle" => \A e \in EnemyIds : enemies[e].live => enemies[e].health > 0

NoRepeat(log) == \A i, j \in 1..Len(log) : i # j => log[i] # log[j]

\* C4: a bullet never damages the same enemy twice during its lifetime.
C4_NoRepeatHit == \A b \in BulletIds : bullets[b].live => NoRepeat(bullets[b].hitlog)

DespawnedByHit(b) ==
    \E i \in CmdsOf("despawn_bullet", b) : cmds[i].by = "bullet_collision_system"

\* C5: a bullet spawned with piercing N lands at most N + 1 hits: while it has
\* landed h <= N hits it is not consumed and piercing_left = N - h; it is
\* consumed exactly by the hit that finds piercing_left = 0, its (N+1)-th.
C5_PierceBound ==
    \A b \in BulletIds :
        LET bu == bullets[b]
            h == Len(bu.hitlog)
        IN bu.live =>
             /\ h <= bu.n0 + 1
             /\ DespawnedByHit(b) <=> h = bu.n0 + 1
             /\ h <= bu.n0 => bu.piercing_left = bu.n0 - h
             /\ h = bu.n0 + 1 => bu.piercing_left = 0

\* a bullet spawned with piercing 1 has landed its second hit and is consumed
C5_Witness ==
    \E b \in BulletIds :
        /\ bullets[b].live /\ bullets[b].n0 = 1
        /\ Len(bullets[b].hitlog) = 2 /\ DespawnedByHit(b)

(* ----------------------- properties: skill projectiles ----------------- *)
SkillCmds(op, p) ==
    {i \in 1..Len(cmds) : /\ cmds[i].op = op /\ cmds[i].id = p
                          /\ cmds[i].by = "skill_projectile_collision_system"}

\* C6: a skill projectile spawned with pierce N and no bounces damages no
\* target twice, lands at most N + 1 hits, is consumed exactly by its (N+1)-th
\* hit, is never removed by the guard, and once it has come to overlap N + 1
\* distinct targets it has damaged exactly N + 1 distinct targets.
C6_PierceHitsExactly ==
    \A p \in SkillProjectileIds :
        LET pr == sprojs[p]
        IN (pr.live /\ pr.b0 = 0) =>
             /\ NoRepeat(pr.dmglog)
             /\ Len(pr.dmglog) <= pr.n0 + 1
             /\ pr.fate = "consumed" <=> Len(pr.dmglog) = pr.n0 + 1
             /\ pr.fate = "consumed" <=> SkillCmds("despawn_sproj", p) # {}
             /\ Cardinality(pr.seen) >= pr.n0 + 1 => Len(pr.dmglog) = pr.n0 + 1

\* C7: the runaway guard removes a skill projectile only when the hits it has
\* recorded exceed its spawn-time pierce + bounces + 5.
C7_GuardThreshold ==
    \A p \in SkillProjectileIds :
        LET pr == sprojs[p]
        IN pr.live =>
             (pr.fate = "guard" => Len(pr.already_hit_by_this_projectile) > pr.n0 + pr.b0 + 5)

\* a projectile that has recorded two hits went through the guard and flies on
C7_Witness ==
    \E p \in SkillProjectileIds :
        /\ sprojs[p].live /\ sprojs[p].passed >= 2
        /\ sprojs[p].passed <= sprojs[p].n0 + sprojs[p].b0 + 5
        /\ sprojs[p].fate = "flying"

\* the un-hit horrors strictly within the chain radius of the horror `hit`
Untouched(pr, hit) ==
    {t \in HorrorIds : /\ horrors[t].live
                       /\ t \notin Range(pr.already_hit_by_this_projectile)
                       /\ Dist(horrors[t].gpos, horrors[hit].gpos) < CHAIN_SEARCH_RADIUS}

Nearest(cand, hit) ==
    {t \in cand : \A u \in cand : Dist(horrors[t].gpos, horrors[hit].gpos)
                                    <= Dist(horrors[u].gpos, horrors[hit].gpos)}

\* C8: when a projectile spawned with pierce 0 and bounces 1 lands its first
\* hit it is despawned; if an un-hit target lies strictly within 250 units of
\* the hit target, exactly one successor is spawned, at the hit target's
\* position and flying toward a nearest such target; otherwise none is spawned.
C8_FirstBounce ==
    \A p \in SkillProjectileIds :
        LET pr == sprojs[p]
            hit == pr.dmglog[1]
            cand == Untouched(pr, hit)
            spawns == SkillCmds("spawn_sproj", p)
        IN (pr.live /\ pr.n0 = 0 /\ pr.b0 = 1 /\ Len(pr.dmglog) >= 1) =>
             /\ Len(pr.dmglog) = 1
             /\ pr.fate = "bounced"
             /\ SkillCmds("despawn_sproj", p) # {}
             /\ cand = {} => spawns = {}
             /\ cand # {} =>
                  /\ Cardinality(spawns) = 1
                  /\ \A i \in spawns :
                       /\ cmds[i].b.pos = horrors[hit].gpos
                       /\ \E t \in Nearest(cand, hit) :
                            /\ t # hit
                            /\ Sign(cmds[i].b.vel) = Sign(horrors[t].gpos - horrors[hit].gpos)
                            /\ cmds[i].b.vel # 0

\* a pierce-0, bounces-1 projectile has hit and its one successor is queued
C8_Witness ==
    \E p \in SkillProjectileIds :
        /\ sprojs[p].live /\ sprojs[p].n0 = 0 /\ sprojs[p].b0 = 1
        /\ Len(sprojs[p].dmglog) = 1
        /\ Cardinality(SkillCmds("spawn_sproj", p)) = 1

BouncesOfCast == survivor.skill.glyph_bounces

ChainBookkeeping ==
    /\ \A c \in 1..MaxCasts : chain.successors[c] <= BouncesOfCast
    /\ \A p \in SkillProjectileIds :
         sprojs[p].live =>
            /\ sprojs[p].b0 = BouncesOfCast - sprojs[p].gen
            /\ sprojs[p].bounces_left =
                  sprojs[p].b0 - (IF sprojs[p].fate = "bounced" THEN 1 ELSE 0)
    /\ \A i \in 1..Len(cmds) :
         (cmds[i].op = "spawn_sproj" /\ cmds[i].by = "skill_projectile_collision_system") =>
            cmds[i].b.bounces_left = sprojs[cmds[i].id].bounces_left

SomeSkillProjectile == \E p \in SkillProjectileIds : sprojs[p].live

\* C9: each bounce consumes one bounce and the successor carries the remaining
\* count, a cast with B bounces produces at most B successors, and every
\* projectile of a chain is eventually despawned.
C9_ChainsTerminate ==
    /\ []ChainBookkeeping
    /\ SomeSkillProjectile ~> ~SomeSkillProjectile

\* a cast with two bounces has produced its two successors
C9_Witness ==
    \E c \in 1..MaxCasts : BouncesOfCast = 2 /\ chain.successors[c] = 2

(* -------------------- properties: the player under attack -------------- *)
\* a step in which the player loses health
PlayerLosesHealth == player'.health < player.health

\* the timer read finished when the hit landed, and the hit restarted it
HitIsGatedAndResets ==
    /\ player.invincibility_timer.finished
    /\ player'.invincibility_timer.elapsed = 0
    /\ ~player'.invincibility_timer.finished

\* C10, as stated: the player loses health only when the invincibility timer
\* reads finished and every hit restarts the timer, so at most one hit lands in
\* a tick and any two hits are at least 1.0 s of game time apart.
C10_HitsOneSecondApart ==
    [][/\ PlayerLosesHealth => HitIsGatedAndResets
       /\ hist'.hits_this_tick <= 1
       /\ hist'.last_gap >= 0 => hist'.last_gap >= INVINCIBILITY_SECONDS]_vars

\* C10, amended: the player loses health only when the invincibility timer reads
\* finished and every hit restarts the timer, so at most one hit lands in a tick
\* and any two hits are at least 1.0 s less the frame time of the earlier hit's
\* tick apart (the timer already counts that tick).
C10_HitsGated ==
    [][/\ PlayerLosesHealth => HitIsGatedAndResets
       /\ hist'.hits_this_tick <= 1
       /\ hist'.last_gap >= 0 =>
              hist'.last_gap >= INVINCIBILITY_SECONDS - hist'.prev_hit_dt]_vars

\* a second hit has landed while an enemy touches the player and a projectile
\* overlaps it in the same tick
C10_Witness ==
    /\ hist.hits >= 2 /\ hist.hits_this_tick = 1
    /\ \E e \in EnemyIds :
         enemies[e].live /\ Collides(Dist(player.pos, enemies[e].pos), PLAYER_SIZE, enemies[e].size)
    /\ \E i \in 1..Len(cmds) :
         cmds[i].op = "despawn_eproj" /\ cmds[i].by = "enemy_projectile_collision_system"

(* -------------------- properties: enemy projectiles -------------------- *)
\* the commands that a step appends to the deferred queue
Queued == SubSeq(cmds', Len(cmds) + 1, Len(cmds'))

ProjectileCollisionRuns ==
    /\ "enemy_projectile_collision_system" \notin ran
    /\ "enemy_projectile_collision_system" \in ran'

\* C11: every enemy projectile that overlaps the player when the collision
\* system runs has its despawn requested by that run, whether or not its damage
\* landed, and is gone when the tick ends; a run that finds the invincibility
\* timer unfinished leaves the player's health and the timer unchanged.
C11_ProjectileRemovedOnContact ==
    [][/\ ProjectileCollisionRuns =>
            /\ \A k \in EnemyProjectileIds :
                  (eprojs[k].live /\ Collides(Dist(eprojs[k].gpos, player.gpos),
                                             SPITTER_PROJECTILE_SIZE, PLAYER_SIZE))
                  => \E i \in 1..Len(Queued) :
                        Queued[i].op = "despawn_eproj" /\ Queued[i].id = k
            /\ ~player.invincibility_timer.finished =>
                  /\ player'.health = player.health
                  /\ player'.invincibility_timer = player.invincibility_timer
       /\ (stage = "update" /\ stage' = "idle") =>
            \A i \in 1..Len(cmds) :
               (cmds[i].op = "despawn_eproj"
                  /\ cmds[i].by = "enemy_projectile_collision_system")
               => ~eprojs'[cmds[i].id].live]_vars

\* the collision system has requested the despawn of a projectile whose damage
\* the unfinished invincibility timer blocked
C11_Witness ==
    /\ "enemy_projectile_collision_system" \in ran
    /\ hist.hits_this_tick = 0
    /\ ~player.invincibility_timer.finished
    /\ \E i \in 1..Len(cmds) :
         /\ cmds[i].op = "despawn_eproj"
         /\ cmds[i].by = "enemy_projectile_collision_system"
         /\ eprojs[cmds[i].id].live

(* --------------------- properties: experience awards ------------------- *)
\* an award is being credited in this step
Awarded == sess'.awards = sess.awards + 1

\* C12: one add_experience call raises the level by at most one and requests
\* LevelUp at most once, also when the credited XP covers several thresholds;
\* it requests LevelUp exactly when the credited current_level_xp is at or above
\* the threshold of the level, and what is left over stays in current_level_xp
\* until a later award
C12_OneLevelPerAward ==
    /\ [](sess.awards > 0 =>
            /\ sess.levels_by_call <= 1
            /\ sess.requests_by_call <= 1
            /\ (sess.requests_by_call = 1) <=> sess.due
            /\ (sess.levels_by_call = 1) <=> sess.due
            /\ sess.due <=> (sess.credited >= sess.last_needed)
            /\ sess.surplus = sess.credited - (IF sess.due THEN sess.last_needed ELSE 0))
    /\ [][/\ Awarded /\ sess'.due => nextState' = "LevelUp"
          /\ Awarded /\ ~sess'.due => nextState' = nextState
          /\ ~Awarded => /\ stats'.level = stats.level
                         /\ stats'.current_level_xp = stats.current_level_xp]_vars

\* an award that covered two thresholds raised the level once and left the rest
C12_Witness ==
    /\ sess.awards > 0
    /\ sess.levels_by_call = 1
    /\ sess.requests_by_call = 1
    /\ stats.level = sess.last_level + 1
    /\ stats.current_level_xp >= ExperienceToNextLevel(stats.level)
    /\ nextState = "LevelUp"

\* the threshold of the table and of its extrapolation
TableThreshold(level) ==
    IF level <= 10 THEN XP_FOR_LEVEL[level] ELSE 2500 + (level - 10) * 500

\* C13: experience_to_next_level is XP_FOR_LEVEL[level-1] for the levels 1 to 10
\* and 2500 + (level - 10) * 500 above, so it is strictly increasing in the level
C13_ThresholdTable ==
    /\ \A l \in 1..(stats.level + 1) :
         /\ ExperienceToNextLevel(l) = TableThreshold(l)
         /\ ExperienceToNextLevel(l) < ExperienceToNextLevel(l + 1)
    /\ sess.awards > 0 => sess.last_needed = TableThreshold(sess.last_level)

\* an award was credited against the threshold of level 11, the first above the table
C13_Witness ==
    /\ sess.awards > 0
    /\ sess.last_level = 11
    /\ sess.last_needed = 3000
    /\ sess.due
    /\ stats.level = 12

(* --------------------- properties: sessions and phases ----------------- *)
\* the session state that a new session starts from
FreshSession ==
    /\ score = 0
    /\ game.wave_number = 1
    /\ game.max_enemies = 20
    /\ game.spawn_timer.dur = 20000
    /\ game.difficulty_timer.elapsed = 0
    /\ player.live
    /\ stats.level = 1 /\ stats.current_level_xp = 0 /\ stats.experience = 0
    /\ player.health = 100 /\ player.max_health = 100
    /\ player.bullet_damage_bonus = 0
    /\ player.projectile_piercing = 0
    /\ player.additional_projectiles = 0
    /\ stats.xp_gain_multiplier = 100
    /\ ~aura.is_active
    /\ ~stats.orbiting_active

\* C14: whenever the phase enters InGame from MainMenu, the session state is at
\* its initial values (score 0, wave 1, MaxEnemies 20, spawn interval 2.0 s,
\* difficulty timer at zero, player at level 1 with 0 XP and full health 100,
\* no upgrade bonus, aura and orbiters inactive), whatever an earlier session did
C14_StartIsFresh ==
    [][(appState = "MainMenu" /\ appState' = "InGame") => FreshSession']_vars

\* a second session has started after one in which the player took upgrades and died
C14_Witness ==
    /\ appState = "InGame"
    /\ sess.from = "MainMenu"
    /\ sess.sessions = 2
    /\ FreshSession

\* C15: from GameOver the restart input moves the phase to InGame with the
\* session state reset as the start from MainMenu resets it
C15_RestartEntersInGame ==
    [][(appState = "GameOver" /\ appState' # appState) =>
          (appState' = "InGame" /\ FreshSession')]_vars

\* C16: when the player's health is at or below 0 at the death check of an InGame
\* tick, the next phase entered is GameOver, whatever else is requested in that
\* tick, and the health does not become positive again before GameOver is entered
C16_DeathEntersGameOver ==
    /\ [][(sess.dead_pending /\ appState' # appState) => appState' = "GameOver"]_vars
    /\ [](sess.dead_pending => player.health <= 0)

\* C17: each visit to LevelUp ends with exactly one upgrade selection: one
\* UpgradeChosenEvent is sent, it is applied exactly once to the player, and the
\* phase returns to InGame; a button press and a digit key in the same tick do
\* not make two upgrades
C17_OneUpgradePerVisit ==
    /\ [](sess.visit_sent <= 1 /\ sess.visit_applied <= sess.visit_sent)
    /\ []((stage = "idle" /\ appState = "InGame" /\ sess.from = "LevelUp") =>
            (sess.visit_sent = 1 /\ sess.visit_applied = 1))
    /\ [][(appState = "LevelUp" /\ appState' # appState) =>
            (appState' = "InGame" /\ sess.visit_sent = 1)]_vars

\* a visit in which a button and a digit key were pressed in the same tick has ended
C17_Witness ==
    /\ stage = "idle"
    /\ appState = "InGame"
    /\ sess.from = "LevelUp"
    /\ sess.both_pressed
    /\ sess.visit_applied = 1
    /\ events.unread = <<>>

\* the timers stand still and the difficulty is what it was
Frozen ==
    /\ game'.difficulty_timer.elapsed = game.difficulty_timer.elapsed
    /\ game'.game_timer.elapsed = game.game_timer.elapsed
    /\ game'.wave_number = game.wave_number
    /\ game'.max_enemies = game.max_enemies
    /\ game'.spawn_timer.dur = game.spawn_timer.dur

\* C18 as stated: while the phase is not InGame the difficulty timer and the game
\* timer do not advance and wave_number, MaxEnemies and the spawn interval do not
\* change; the difficulty timer resumes on re-entry to InGame from where it was
C18_FrozenOutsideInGame ==
    [][appState # "InGame" =>
         /\ Frozen
         /\ appState' = "InGame" => ~game'.difficulty_timer.paused]_vars

\* the step in which the start input or the restart input resets the session
ResetsSession ==
    \E s \in {"main_menu_input_system", "game_over_input_system"} :
       /\ s \notin ran /\ s \in ran'
       /\ nextState' # nextState

\* C18, amended: outside InGame the timers do not advance, and the wave,
\* MaxEnemies and the spawn interval change only by the session reset of the start
\* input (MainMenu) and the restart input (GameOver), which puts them at their
\* initial values; the difficulty timer resumes on re-entry from where it was
C18_FrozenUnlessReset ==
    [][appState # "InGame" =>
         /\ ~ResetsSession => Frozen
         /\ ResetsSession =>
              /\ appState \in {"MainMenu", "GameOver"}
              /\ game'.wave_number = 1 /\ game'.max_enemies = 20
              /\ game'.spawn_timer.dur = 20000
              /\ game'.difficulty_timer.elapsed = 0 /\ game'.game_timer.elapsed = 0
         /\ appState' = "InGame" => ~game'.difficulty_timer.paused]_vars

\* the difficulty timer has run for one tick before the debug menu and one after
C18_Witness ==
    /\ stage = "idle"
    /\ appState = "InGame"
    /\ sess.from = "DebugUpgradeMenu"
    /\ sess.frames >= 4
    /\ ~game.difficulty_timer.paused
    /\ game.difficulty_timer.elapsed = WornGame.difficulty_timer.elapsed + 2 * dt

(* --------------------- properties: repeating timers -------------------- *)
\* system s runs in this step
Runs(s) == s \notin ran /\ s \in ran'

\* timer t, ticked by d, reaches its duration
Elapses(t, d) == t.elapsed + d >= t.dur

\* C19: each elapse of the difficulty timer adds exactly 1 to wave_number, sets
\* MaxEnemies to min(20 + 10 * (wave_number - 1), 200) and the spawn interval to
\* max(0.9 * previous interval, 0.3 s); in a session MaxEnemies stays in 20..200
\* and never decreases, the spawn interval stays in 0.3 s..2.0 s and never increases
C19_DifficultyScaling ==
    /\ [](/\ 20 <= game.max_enemies /\ game.max_enemies <= 200
          /\ 3000 <= game.spawn_timer.dur /\ game.spawn_timer.dur <= 20000)
    /\ [][/\ game'.max_enemies >= game.max_enemies
          /\ game'.spawn_timer.dur <= game.spawn_timer.dur
          /\ (Runs("difficulty_scaling_system") /\ Elapses(game.difficulty_timer, dt)) =>
               /\ game'.wave_number = game.wave_number + 1
               /\ game'.max_enemies =
                    (IF 20 + 10 * game.wave_number < 200 THEN 20 + 10 * game.wave_number
                     ELSE 200)
               /\ game'.spawn_timer.dur =
                    (IF (game.spawn_timer.dur * 9) \div 10 > 3000
                     THEN (game.spawn_timer.dur * 9) \div 10 ELSE 3000)
          /\ ~(Runs("difficulty_scaling_system") /\ Elapses(game.difficulty_timer, dt)) =>
               /\ game'.wave_number = game.wave_number
               /\ game'.max_enemies = game.max_enemies
               /\ game'.spawn_timer.dur = game.spawn_timer.dur]_vars

\* the difficulty timer has just elapsed in wave 20: the cap and the floor hold
C19_Witness ==
    /\ "difficulty_scaling_system" \in ran
    /\ TimerJustFinished(game.difficulty_timer)
    /\ game.wave_number = 21
    /\ game.max_enemies = 200
    /\ game.spawn_timer.dur = 3000

\* the commands of kind op that this step queues
QueuedOf(op) == SelectSeq(Queued, LAMBDA c : c.op = op)

\* C20: every action gated by a repeating timer (player volley, enemy spawn, wave
\* increment, aura damage tick, spitter shot) happens at most once per tick, also
\* when the tick's delta is several times the timer's duration, and only in a tick
\* in which the timer reaches its duration: the tick leaves less than one period
\* on the timer, so missed periods are not made up in later ticks
C20_OneTriggerPerTick ==
    [][/\ Runs("player_shooting_system") =>
            /\ Len(QueuedOf("spawn_bullet")) \in {0, VolleySize}
            /\ Len(QueuedOf("spawn_bullet")) > 0 => Elapses(weapon, dt)
            /\ weapon'.elapsed < weapon'.dur
       /\ Runs("enemy_spawn_system") =>
            /\ Len(QueuedOf("spawn_enemy")) <= 1
            /\ Len(QueuedOf("spawn_enemy")) > 0 => Elapses(game.spawn_timer, TimeDelta(dt))
            /\ game'.spawn_timer.elapsed < game'.spawn_timer.dur
       /\ Runs("difficulty_scaling_system") =>
            /\ game'.wave_number - game.wave_number \in {0, 1}
            /\ game'.wave_number > game.wave_number => Elapses(game.difficulty_timer, dt)
            /\ game'.difficulty_timer.elapsed < game'.difficulty_timer.dur
       /\ Runs("aoe_aura_weapon_system") =>
            /\ \A e \in EnemyIds :
                 /\ enemies'[e].aura_hits - enemies[e].aura_hits \in {0, 1}
                 /\ enemies'[e].aura_hits > enemies[e].aura_hits =>
                      Elapses(aura.damage_tick_timer, dt)
            /\ aura'.damage_tick_timer.elapsed < aura'.damage_tick_timer.dur
       /\ Runs("spitter_shooting_logic") =>
            \A e \in EnemyIds :
              LET shots == SelectSeq(QueuedOf("spawn_eproj"), LAMBDA c : c.id = e)
              IN /\ Len(shots) <= 1
                 /\ Len(shots) > 0 => Elapses(enemies[e].spitter.fire_timer, dt)
                 /\ enemies'[e].spitter.fire_timer.elapsed < enemies'[e].spitter.fire_timer.dur
      ]_vars

\* a tick many periods long has run every system: each timer counts two periods or
\* more, and there is one bullet, one new enemy, one wave more, one aura hit, one shot
C20_Witness ==
    /\ stage = "update"
    /\ ran = systems
    /\ systems = TimerSystems
    /\ dt = LongDelta
    /\ sess.frames = 1
    /\ weapon.times >= 2
    /\ game.spawn_timer.times >= 2
    /\ game.difficulty_timer.times >= 2
    /\ aura.damage_tick_timer.times >= 2
    /\ enemies[1].spitter.fire_timer.times >= 2
    /\ Cardinality({b \in BulletIds : bullets[b].live}) + PendingSpawns = 1
    /\ Cardinality({e \in EnemyIds : enemies[e].live}) + PendingEnemySpawns = 2
    /\ Cardinality({k \in EnemyProjectileIds : eprojs[k].live}) + PendingProjectileSpawns = 1
    /\ enemies[1].aura_hits = 1
    /\ game.max_enemies = 30

(* ----------------------- properties: orbiting seeds -------------------- *)
\* the commands of the last reconciliation have been applied and the orbiters
\* have not moved since
Reconciled ==
    /\ stage = "update"
    /\ "manage_orbiters_system" \in ran
    /\ "orbiter_movement_system" \notin ran
    /\ stats.count_before >= 0
    /\ \A i \in 1..Len(cmds) : cmds[i].by # "manage_orbiters_system"

\* a bearing in degrees
Degrees(a) == (a * 3) \div 2

\* C21: once the reconciliation of a changed orbiter weapon has been applied, the
\* player has num_orbiters orbiters if the weapon is active and none if it is
\* not; from 0 to 3 the three new orbiters stand at 0, 120 and 240 degrees, and
\* from 3 to 1 two orbiters are gone and one of the three is left
C21_ReconciledCount ==
    /\ (~stats.orbiting_changed /\ \A i \in 1..Len(cmds) : cmds[i].by # "manage_orbiters_system")
          => Len(orbiters) = IF stats.orbiting_active THEN stats.num_orbiters ELSE 0
    /\ (Reconciled /\ stats.orbiting_active /\ stats.count_before = 0 /\ stats.num_orbiters = 3)
          => [k \in 1..Len(orbiters) |-> Degrees(orbiters[k].angle)] = <<0, 120, 240>>
    /\ (Reconciled /\ stats.orbiting_active /\ stats.count_before = 3 /\ stats.num_orbiters = 1)
          => /\ Len(orbiters) = 1
             /\ orbiters[1].id \in 1..3
             /\ orbiters[1].gangle >= 0

\* both of the claim's steps have happened in some run; here the growth from 0 to 3
C21_Witness ==
    /\ Reconciled
    /\ stats.orbiting_active
    /\ stats.count_before = 0
    /\ stats.num_orbiters = 3
    /\ Len(orbiters) = 3

\* C22: two hits of one orbiter on one enemy are at least hit_cooldown_duration
\* (0.75 s) apart, and an orbiter that skips an enemy on its cooldown list or hits
\* it does so per enemy and per orbiter
C22_HitsOneCooldownApart ==
    \A k \in 1..Len(orbiters) : \A e \in EnemyIds :
        /\ orbiters[k].gap[e] = -1 \/ orbiters[k].gap[e] >= ORBITER_HIT_COOLDOWN
        /\ e \in orbiters[k].skipped => orbiters[k].since[e] \in 1..(ORBITER_HIT_COOLDOWN - 1)

\* an orbiter passes over an enemy it hit less than 0.75 s ago and skips it, having
\* hit that enemy a second time earlier in the run, a cooldown or more after the first
C22_Witness ==
    \E k \in 1..Len(orbiters) : \E e \in EnemyIds :
        /\ e \in orbiters[k].skipped
        /\ orbiters[k].gap[e] >= ORBITER_HIT_COOLDOWN

(* -------------------- properties: skill effects in an area ------------- *)
EffectsOf(kind) == {k \in 1..Len(effects) : effects[k].kind = kind}

DespawnQueued(f) ==
    \E i \in 1..Len(cmds) : cmds[i].op = "despawn_effect" /\ cmds[i].id = f.id

\* C23: a sentry (a skill area effect) has damaged every horror inside its radius
\* once for each elapse of its tick timer and no horror outside it, it has dealt no
\* damage in or after the tick in which its lifetime timer finished, and in that
\* tick its despawn is requested
C23_OncePerElapse ==
    \A k \in EffectsOf("aoe") :
        /\ \A h \in HorrorIds :
              effects[k].hits[h] = IF InRadius([effects[k] EXCEPT !.gpos = effects[k].pos],
                                               horrors[h])
                                   THEN effects[k].elapses ELSE 0
        /\ ~effects[k].late
        /\ effects[k].lifetime_timer.finished => DespawnQueued(effects[k])

\* a sentry at the end of its 8 s: its tick timer has elapsed 10 times and the
\* horror inside its radius has been damaged 10 times
C23_Witness ==
    \E k \in EffectsOf("aoe") :
        /\ effects[k].lifetime_timer.finished
        /\ effects[k].elapses = 10
        /\ effects[k].hits[1] = 10

\* the Frozen insert of nova f for horror h is queued or has been applied
Chilled(f, h) ==
    \/ \E i \in 1..Len(cmds) :
          /\ cmds[i].op = "insert_frozen"
          /\ cmds[i].id = h
          /\ cmds[i].b.speed_multiplier = f.slow_multiplier
          /\ cmds[i].b.timer.dur = f.slow_duration_secs
    \/ /\ horrors[h].frozen.some
       /\ horrors[h].frozen.speed_multiplier = f.slow_multiplier
       /\ horrors[h].frozen.timer.dur = f.slow_duration_secs

\* C24: a nova has damaged no horror more than once, in whatever tick of its life,
\* and every horror it has damaged gets or has the Frozen status with the nova's
\* slow multiplier and slow duration
C24_NovaHitsOnce ==
    \A k \in EffectsOf("nova") : \A h \in HorrorIds :
        /\ effects[k].hits[h] <= 1
        /\ effects[k].hits[h] = 1 => Chilled(effects[k], h)

\* a nova in a later tick of its life, its damage pass over, with a horror it hit
C24_Witness ==
    \E k \in EffectsOf("nova") :
        /\ effects[k].closed
        /\ 2 * effects[k].lifetime_timer.elapsed >= effects[k].lifetime_timer.dur
        /\ effects[k].hits[1] = 1
        /\ horrors[1].frozen.some

\* C25: when the damage pass of a nova has come over a horror inside its radius
\* that is already Frozen, that horror's Frozen status is the nova's again: its
\* timer has restarted (at most this tick has elapsed on it) and its multiplier is
\* the nova's
C25_ReapplyRefreshes ==
    \A k \in EffectsOf("nova") : \A h \in effects[k].passed_over :
        (/\ stage = "update"
         /\ "freezing_nova_effect_damage_system" \in ran
         /\ \A i \in 1..Len(cmds) : cmds[i].by # "freezing_nova_effect_damage_system")
        => /\ horrors[h].frozen.some
           /\ horrors[h].frozen.timer.elapsed <= dt
           /\ horrors[h].frozen.speed_multiplier = effects[k].slow_multiplier

\* the larger of two durations
LongerOf(a, b) == IF a > b THEN a ELSE b

\* C26: a cast sets the cooldown to the larger of base * cooldown_multiplier and
\* 0.1 s, the cooldown then is that value less the time since the cast and never
\* below zero, and a cast is made only a full cooldown or more after the cast before
C26_CooldownGatesCasts ==
    LET skill == survivor.skill
        base == SkillLibrary(skill.definition_id).base_cooldown
    IN /\ skill.set_to # 0 =>
              skill.set_to = LongerOf((base * skill.cooldown_multiplier) \div 100, MIN_COOLDOWN)
       /\ skill.current_cooldown = skill.set_to - skill.since
       /\ IsReady(skill) <=> skill.since = skill.set_to
       /\ skill.gap # -1 => skill.gap = skill.prev_set

\* a second cast, made with a halved or a floored cooldown
C26_Witness ==
    /\ survivor.skill.gap # -1
    /\ survivor.skill.cooldown_multiplier < 100
    /\ survivor.skill.current_cooldown > 0

(* ------------------- properties: despawn requests ---------------------- *)
DespawnRequests(e) ==
    Cardinality({i \in 1..Len(cmds) : cmds[i].op = "despawn_enemy" /\ cmds[i].id = e})

LiveEnemies(es) == {e \in EnemyIds : es[e].live}

\* the step applies the queued commands
Flushes == cmds # <<>> /\ cmds' = <<>>

DespawnPending(op, by, id) ==
    /\ stage = "update"
    /\ \E i \in 1..Len(cmds) : cmds[i].op = op /\ cmds[i].by = by /\ cmds[i].id = id

\* a projectile carries a Once timer of its kind's lifetime, and one whose
\* timer has finished is alive only until the commands of the tick are applied
WithinLifetime(pr, lifetime, op, by, id) ==
    pr.live => /\ pr.life.dur = lifetime
               /\ pr.life.mode = "Once"
               /\ pr.life.finished => DespawnPending(op, by, id)

\* the step is the run of system s
RunOf(s) == stage = "update" /\ s \notin ran /\ s \in ran'

\* the timer has advanced by the frame time, up to its duration
Advanced(before, after) ==
    after.life.elapsed = IF before.life.elapsed + dt >= before.life.dur
                         THEN before.life.dur ELSE before.life.elapsed + dt

MaxHealthCards == Len(SelectSeq(events.unread, LAMBDA e : e.card = "MaxHealth"))

\* the step is a session reset by an input system, with a player entity present
ResetsPlayer ==
    /\ RunOf("game_over_input_system") \/ RunOf("main_menu_input_system")
    /\ Len(cmds') > Len(cmds)

\* C29: the player's health never exceeds max_health; regeneration leaves the
\* health of a dead player and of a player at max_health as it is; a MaxHealth
\* upgrade raises max_health and health by the same amount; a session reset
\* sets both to INITIAL_PLAYER_MAX_HEALTH
C29_HealthAtMostMax ==
    /\ [](player.health <= player.max_health)
    /\ [][/\ (RunOf("player_health_regeneration_system")
              /\ ~(0 < player.health /\ player.health < player.max_health))
             => player'.health = player.health
          /\ (RunOf("apply_chosen_upgrade") /\ player.live)
             => /\ player'.max_health = player.max_health + MaxHealthCards * MAX_HEALTH_UPGRADE
                /\ player'.health = player.health + MaxHealthCards * MAX_HEALTH_UPGRADE
          /\ ResetsPlayer
             => /\ player'.health = INITIAL_PLAYER_MAX_HEALTH
                /\ player'.max_health = INITIAL_PLAYER_MAX_HEALTH]_vars

\* regeneration has run on a wounded player and asked for more than max_health:
\* the health stands at max_health
C29_Witness ==
    /\ player.live
    /\ player.unclamped > player.max_health
    /\ player.health = player.max_health

(* ------------------- properties: the order of the passes --------------- *)
\* C30: in every tick the collision system of each kind of projectile has run
\* when the lifetime system of that kind runs, so a projectile is tested for
\* hits in the tick in which its lifetime ends
C30_CollisionBeforeLifetime ==
    [][/\ RunOf("bullet_lifetime_system") => "bullet_collision_system" \in ran
       /\ RunOf("enemy_projectile_lifetime_system")
             => "enemy_projectile_collision_system" \in ran
       /\ RunOf("skill_projectile_lifetime_system")
             => "skill_projectile_collision_system" \in ran]_vars

\* the order holds for bullets and for enemy projectiles
BulletsCollideBeforeLifetime ==
    [][/\ RunOf("bullet_lifetime_system") => "bullet_collision_system" \in ran
       /\ RunOf("enemy_projectile_lifetime_system")
             => "enemy_projectile_collision_system" \in ran]_vars

\* a skill projectile in touch with a horror it has not hit is removed by the
\* lifetime system: the collision system of the tick never sees it
ExpiredUntested ==
    \E i \in 1..Len(cmds) :
       /\ cmds[i].by = "skill_projectile_lifetime_system"
       /\ "skill_projectile_collision_system" \notin ran
       /\ LET pr == sprojs[cmds[i].id]
          IN \E k \in HorrorIds :
                /\ horrors[k].live
                /\ k \notin Range(pr.already_hit_by_this_projectile)
                /\ Collides(Dist(pr.gpos, horrors[k].gpos), pr.size, horrors[k].size)

(* ------------------- properties: chained projectiles ------------------- *)
\* C31: no horror is damaged more than once by the projectiles of one chain
C31_OnceEachPerChain ==
    \A c \in 1..MaxCasts : \A h \in HorrorIds : chain.damaged[c][h] <= 1

\* C32: a successor that has been tested while it overlapped the live horror
\* it was aimed at has damaged that horror
C32_SuccessorHitsItsTarget ==
    \A p \in SkillProjectileIds :
       (sprojs[p].live /\ sprojs[p].gen > 0)
          => (sprojs[p].seed \cap sprojs[p].seen) \subseteq Range(sprojs[p].dmglog)

(* ------------------- properties: the end of a session ------------------ *)
\* C33: when the phase leaves InGame for GameOver or MainMenu no enemy and no
\* player entity is left after the exit, and when InGame is entered from
\* MainMenu no enemy is alive
C33_ExitDespawnsSession ==
    [][/\ (appState = "InGame" /\ appState' \in {"GameOver", "MainMenu"})
           => /\ \A e \in EnemyIds : ~enemies'[e].live
              /\ ~player'.live
       /\ (appState = "MainMenu" /\ appState' = "InGame")
           => \A e \in EnemyIds : ~enemies'[e].live]_vars

\* a second session is under way with an enemy that the first one left
LeftOverEnemy ==
    /\ appState = "InGame"
    /\ sess.sessions = 2
    /\ \E e \in EnemyIds : enemies[e].live

\* C34: the number of live enemies never exceeds MaxEnemies, a restart that reset
\* MaxEnemies to its initial value included
C34_EnemiesWithinMax == EnemyCount <= game.max_enemies

\* the second session runs with more enemies alive than MaxEnemies allows
CrowdedRestart ==
    /\ appState = "InGame"
    /\ sess.sessions = 2
    /\ game.max_enemies = INITIAL_MAX_ENEMIES
    /\ EnemyCount > game.max_enemies

\* within one session the count stays within MaxEnemies
WithinMaxInSession == sess.sessions = 1 /\ appState = "InGame" => EnemyCount <= game.max_enemies

\* the health that a rate in units of 0.5 HP/sec yields over a number of 50 ms steps
RegenOwed(pl) == (pl.health_regen_rate * pl.starved) \div 40

\* C35: a wounded player with a positive regeneration rate who takes no damage
\* gains about health_regen_rate health per second whatever the tick length:
\* the regeneration never falls a whole health point behind
C35_RegenKeepsPace == player.live => RegenOwed(player) < 1

\* one second of regeneration at 1.0 HP/sec in ticks of 100 ms has left the health
\* where it was
RegenStarved ==
    /\ player.live
    /\ Regenerates(player)
    /\ player.health_regen_rate = HEALTH_REGEN_UPGRADE
    /\ player.starved >= 20
    /\ hist.hits = 0

\* the phases in which a menu is open over the session
MenuOpen == appState \in {"LevelUp", "DebugUpgradeMenu"}

\* the step moves no player and no enemy, advances no lifetime and reduces no health
RestFrozen ==
    /\ player'.pos = player.pos
    /\ player'.health >= player.health
    /\ \A e \in EnemyIds : /\ enemies'[e].pos = enemies[e].pos
                           /\ enemies'[e].health >= enemies[e].health
    /\ \A b \in BulletIds : bullets'[b].life = bullets[b].life
    /\ \A k \in EnemyProjectileIds : eprojs'[k].life = eprojs[k].life

\* the step moves no enemy projectile
ProjectilesFrozen == \A k \in EnemyProjectileIds : eprojs'[k].pos = eprojs[k].pos

\* C36: while the phase is LevelUp or DebugUpgradeMenu no player, enemy or enemy
\* projectile changes position, no lifetime advances and no health is reduced
C36_FrozenInMenus == [][MenuOpen => (RestFrozen /\ ProjectilesFrozen)]_vars

\* what the menus do freeze
FrozenApartFromProjectiles == [][MenuOpen => RestFrozen]_vars

\* a Spitter projectile has flown on while the upgrade cards were shown
FlownOnInLevelUp ==
    /\ appState = "LevelUp"
    /\ "projectile_movement_system" \in ran
    /\ eprojs[1].live
    /\ eprojs[1].pos # eprojs[1].gpos

\* the phase leaves InGame with this step
LeavesInGame == appState = "InGame" /\ appState' # "InGame"

\* C37: every exit from InGame, to LevelUp, to DebugUpgradeMenu and to GameOver
\* alike, despawns all player bullets and all experience orbs of that moment
C37_ExitCleansBulletsAndOrbs ==
    [][LeavesInGame => /\ appState' \in {"LevelUp", "DebugUpgradeMenu", "GameOver"}
                       /\ \A b \in BulletIds : ~bullets'[b].live
                       /\ orbs' = <<>>]_vars

\* a menu or the GameOver screen was entered from a session with a bullet in
\* flight and an orb in the world
C37_Witness ==
    /\ appState \in {"LevelUp", "DebugUpgradeMenu", "GameOver"}
    /\ sess.from = "InGame"
    /\ sess.frames = 2
    /\ orbs = <<>>
    /\ \A b \in BulletIds : ~bullets[b].live

\* the edges between the phases
PhaseEdges ==
    {<<"MainMenu", "InGame">>, <<"InGame", "LevelUp">>, <<"LevelUp", "InGame">>,
     <<"InGame", "GameOver">>, <<"GameOver", "MainMenu">>,
     <<"InGame", "DebugUpgradeMenu">>, <<"DebugUpgradeMenu", "InGame">>}

\* C38: the phase changes only along the edges MainMenu to InGame, InGame to
\* LevelUp and back, InGame to GameOver, GameOver to MainMenu, and InGame to and
\* from DebugUpgradeMenu
C38_PhaseEdges == [][appState' # appState => <<appState, appState'>> \in PhaseEdges]_vars

\* the main menu is shown again after a session that visited both menus and
\* ended on the GameOver screen
C38_Witness ==
    /\ appState = "MainMenu"
    /\ sess.from = "GameOver"
    /\ sess.visits >= 1

ShotWhileInvincible ==
    /\ stage = "update"
    /\ player.live
    /\ hist.age < INVINCIBILITY_SECONDS
    /\ "enemy_projectile_collision_system" \notin ran
    /\ \E k \in EnemyProjectileIds :
         /\ eprojs[k].live
         /\ Collides(Dist(eprojs[k].gpos, player.gpos), SPITTER_PROJECTILE_SIZE, PLAYER_SIZE)

\* g is the integer nearest to amount * multiplier, the multiplier in percent
NearestGain(g, amount, multiplier) ==
    /\ 100 * g - amount * multiplier > -50
    /\ 100 * g - amount * multiplier <= 50

\* C40: the total experience is current_level_xp plus the thresholds of the
\* levels completed; each add_experience call credits round(amount *
\* xp_gain_multiplier) to both counters, and the total never decreases within a
\* session
C40_ExperienceAccounts ==
    /\ [](stats.experience = stats.current_level_xp + XpSpent(stats.level))
    /\ [][Awarded =>
            \E amount \in XpAwards : \E g \in 0..(2 * amount) :
               /\ NearestGain(g, amount, stats.xp_gain_multiplier)
               /\ stats'.experience = stats.experience + g
               /\ stats'.current_level_xp + XpSpent(stats'.level)
                    = stats.current_level_xp + XpSpent(stats.level) + g]_vars
    /\ [][stats'.experience >= stats.experience]_vars

\* an award with a multiplier of 1.2 has completed a level above the table
C40_Witness ==
    /\ sess.awards > 0
    /\ stats.xp_gain_multiplier = 120
    /\ stats.level > Len(XP_FOR_LEVEL) + 1
    /\ stats.current_level_xp > 0
    /\ stats.experience = stats.current_level_xp + XpSpent(stats.level)

====
